---- MODULE Spec2Model ----
(***************************************************************************)
(* Model of the copy engine of redacter-rs: the copy coordinator           *)
(* (commands/copy_command.rs), the redaction planner and pipeline          *)
(* (redacters/stream_redacter.rs), the file matcher                        *)
(* (file_tools/file_matcher.rs), the local listing                         *)
(* (file_systems/local.rs) and the request limit (common_types.rs).        *)
(*                                                                         *)
(* Rust Option<T> values are modelled as sets with at most one element:    *)
(* None is {} and Some(v) is {v}.                                          *)
(***************************************************************************)
EXTENDS Integers, Sequences, FiniteSets, TLC

\* ----------------------------------------------------------------------
\* Bounds of the model
\* ----------------------------------------------------------------------
MaxNodes == 2
MaxSize == 2
MaxFilesLimit == 2
MaxPages == 2
MaxRedacters == 2
MaxOps == 2
MaxTime == 6
MaxElapsed == 2
MaxCallTime == 1
ListNodes == 4

\* ----------------------------------------------------------------------
\* Small helpers
\* ----------------------------------------------------------------------
None == {}

Some(v) == {v}

Last(s) == s[Len(s)]

\* ----------------------------------------------------------------------
\* Source trees.  A directory is the sequence of its entries in read_dir
\* order; an entry is a file (extension, size) or a sub-directory.  A
\* file's relative path is the sequence of entry positions leading to it.
\* ----------------------------------------------------------------------
Exts == {"txt", "md"}

Sizes == 1..MaxSize

FileEntries == [isDir : {FALSE}, ext : Exts, size : Sizes, entries : {<<>>}]

\* the files of the larger trees given to the listing on its own
SmallFileEntries == { f \in FileEntries : f.size = 1 }

DirEntry(d) == [isDir |-> TRUE, ext |-> "", size |-> 0, entries |-> d]

\* the directories of exactly n entries in all, sub-directories included
RECURSIVE Forests(_, _)
Forests(n, files) ==
    IF n = 0 THEN {<<>>}
    ELSE { <<f>> \o rest : f \in files, rest \in Forests(n - 1, files) }
         \cup UNION { { <<DirEntry(d)>> \o rest :
                          d \in Forests(k, files), rest \in Forests(n - 1 - k, files) }
                      : k \in 0..(n - 1) }

Trees(n, files) == UNION { Forests(k, files) : k \in 0..n }

RECURSIVE CountFiles(_)
CountFiles(dir) ==
    IF dir = <<>> THEN 0
    ELSE (IF dir[1].isDir THEN CountFiles(dir[1].entries) ELSE 1) + CountFiles(Tail(dir))

\* ----------------------------------------------------------------------
\* FileMatcher (file_tools/file_matcher.rs)
\* ----------------------------------------------------------------------
Globs == {"*.txt", "*/*"}

\* globset's GlobMatcher::is_match for the two globs of the model: "*.txt"
\* accepts every path ending in .txt ('*' crosses '/'), "*/*" every path
\* with at least one separator.
is_match(glob, ref) ==
    IF glob = "*.txt" THEN ref.ext = "txt" ELSE Len(ref.relative_path) >= 2

\* matches with the size test made inclusive
matches_inclusive(file_matcher, file_ref) ==
    IF \E max_size_limit \in file_matcher.max_size_limit :
          \E file_size \in file_ref.file_size : file_size >= max_size_limit
    THEN "SkippedDueToSize"
    ELSE IF \E filename_matcher \in file_matcher.filename_matcher :
               ~is_match(filename_matcher, file_ref)
         THEN "SkippedDueToName"
         ELSE "Matched"

matches(file_matcher, file_ref) ==
    IF \E max_size_limit \in file_matcher.max_size_limit :
          \E file_size \in file_ref.file_size : file_size > max_size_limit
    THEN "SkippedDueToSize"
    ELSE IF \E filename_matcher \in file_matcher.filename_matcher :
               ~is_match(filename_matcher, file_ref)
         THEN "SkippedDueToName"
         ELSE "Matched"

\* ----------------------------------------------------------------------
\* LocalFileSystem::list_files_recursive (file_systems/local.rs)
\* ----------------------------------------------------------------------
EMPTY == [files |-> <<>>, skipped |-> 0, visited |-> <<>>]

LocalFileRef(path, entry) ==
    [relative_path |-> path, ext |-> entry.ext, file_size |-> Some(entry.size)]

\* saturating_sub that leaves the budget whole
saturating_sub_whole(a, b) == a

saturating_sub(a, b) == IF a >= b THEN a - b ELSE 0

RECURSIVE list_files_recursive(_, _, _, _)
RECURSIVE ListLoop(_, _, _, _, _, _)
\* the while-let loop over the entries of one directory, from entry i on;
\* visited records every entry handed out by next_entry, in order
ListLoop(dir, dir_path, file_matcher, max_files_limit, i, acc) ==
    IF i > Len(dir) THEN [files |-> acc.files, skipped |-> acc.skipped, visited |-> acc.visited]
    ELSE
      LET entry == dir[i]
          path == Append(dir_path, i)
          file_ref == LocalFileRef(path, entry)
          seen == Append(acc.visited, path)
          step ==
            IF ~entry.isDir
            THEN IF \A matcher \in file_matcher : matches(matcher, file_ref) = "Matched"
                 THEN [files |-> Append(acc.files, file_ref), skipped |-> acc.skipped,
                       visited |-> seen]
                 ELSE [files |-> acc.files, skipped |-> acc.skipped + 1, visited |-> seen]
            ELSE LET new_max_files_limit ==
                       { saturating_sub(v, Len(acc.files)) : v \in max_files_limit }
                     dir_files == list_files_recursive(entry.entries, path, file_matcher,
                                                       new_max_files_limit)
                 IN [files |-> acc.files \o dir_files.files,
                     skipped |-> acc.skipped + dir_files.skipped,
                     visited |-> seen \o dir_files.visited]
      IN IF \E limit \in max_files_limit : Len(step.files) >= limit
         THEN step
         ELSE ListLoop(dir, dir_path, file_matcher, max_files_limit, i + 1, step)

list_files_recursive(dir, dir_path, file_matcher, max_files_limit) ==
    IF \E v \in max_files_limit : v = 0
    THEN EMPTY
    ELSE ListLoop(dir, dir_path, file_matcher, max_files_limit, 1, EMPTY)

\* LocalFileSystem::list_files
list_files(root, file_matcher, max_files_limit) ==
    list_files_recursive(root, <<>>, file_matcher, max_files_limit)

\* ----------------------------------------------------------------------
\* Media types (redacters/mod.rs, Redacters::is_mime_*)
\* ----------------------------------------------------------------------
MimeKinds == {"text/plain", "text/csv", "image/png", "image/webp", "image/svg+xml",
              "application/pdf", "application/zip"}

is_mime_text(mime) == mime = "text/plain"

is_mime_table(mime) == mime = "text/csv"

is_mime_image(mime) == mime \in {"image/png", "image/webp", "image/svg+xml"}

is_mime_pdf(mime) == mime = "application/pdf"

\* image::ImageFormat::from_mime_type: a raster format for png and webp,
\* None for image/svg+xml
ImageFormat_from_mime_type(mime) ==
    IF mime \in {"image/png", "image/webp"} THEN Some(mime) ELSE None

\* ----------------------------------------------------------------------
\* Redacter backends: redact_support and the dispatch of redact
\* ----------------------------------------------------------------------
\* GcpVertexAi has the support and the dispatch of OpenAiLlm and is not listed
RedacterTypes == {"GcpDlp", "AwsBedrock", "OpenAiLlm"}

\* GcpDlpRedacter::check_supported_image_type
check_supported_image_type(mime) == is_mime_image(mime) /\ mime = "image/png"

\* Redacter::redact_support of the four backends; media_type is an Option
redact_support(redacter, media_type) ==
    IF \E mime \in media_type :
         \/ is_mime_text(mime)
         \/ redacter = "GcpDlp" /\ (is_mime_table(mime) \/ check_supported_image_type(mime))
         \/ redacter = "OpenAiLlm" /\ is_mime_image(mime)
    THEN "Supported"
    ELSE "Unsupported"

\* A data item: its content variant, the image MIME (Image only), the page
\* count (Pdf only) and the redacters whose output it is, oldest first.
Item(variant, mime, pages, applied) ==
    [variant |-> variant, mime |-> mime, pages |-> pages, applied |-> applied]

\* The environment of one file: transport failure of the failAt-th backend
\* request (0: none fails), success of reading the stream (readOk) and of
\* the decoding and conversion steps (convOk), and the number of pages of a
\* PDF.  Only what a file of the given media type and a pipeline of n
\* redacters can observe is varied: with n = 0 the stream is never read.
EnvsFor(media_type, n) ==
    LET pdf == n > 0 /\ \E m \in media_type : is_mime_pdf(m)
        image == n > 0 /\ \E m \in media_type : is_mime_image(m)
    IN [failAt : 0..(n * (IF pdf THEN MaxPages ELSE 1)),
        convOk : IF pdf \/ image THEN BOOLEAN ELSE {TRUE},
        readOk : IF n = 0 THEN {TRUE} ELSE BOOLEAN,
        pages : IF pdf THEN 0..MaxPages ELSE {0}]

\* Redacter::redact.  calls is the number of backend requests made so far.
\* The result tells whether the call returned Ok, whether a backend request
\* was sent, and the returned item.
redact(redacter, input, calls, env) ==
    LET unsupported == [ok |-> FALSE, sent |-> FALSE, item |-> input]
        request == [ok |-> (calls + 1 # env.failAt), sent |-> TRUE,
                    item |-> [input EXCEPT !.applied = Append(@, redacter)]]
        image_llm == IF ImageFormat_from_mime_type(input.mime) = None \/ ~env.convOk
                     THEN unsupported ELSE request
    IN CASE redacter = "GcpDlp" ->
              IF input.variant \in {"Table", "Value"} THEN request
              ELSE IF input.variant = "Image" /\ check_supported_image_type(input.mime)
                   THEN request ELSE unsupported
         [] redacter = "AwsBedrock" ->
              IF input.variant = "Value" THEN request ELSE unsupported
         [] OTHER ->
              IF input.variant = "Value" THEN request
              ELSE IF input.variant = "Image" THEN image_llm ELSE unsupported

\* ----------------------------------------------------------------------
\* StreamRedacter::create_redact_plan (redacters/stream_redacter.rs)
\* ----------------------------------------------------------------------
\* a probe that pushes every supporting redacter twice
Probe_twice(redacters, media_type) ==
    LET hit == SelectSeq(redacters, LAMBDA r : redact_support(r, media_type) = "Supported")
    IN hit \o hit

\* a probe that takes every redacter
Probe_all(redacters, media_type) == redacters

Probe(redacters, media_type) ==
    SelectSeq(redacters, LAMBDA r : redact_support(r, media_type) = "Supported")

NoPlan == [apply_pdf_image_converter |-> FALSE, apply_ocr |-> FALSE,
           leave_data_table_as_text |-> FALSE]

\* a plan made of the first probe alone
create_redact_plan_natural(redacters, media_type, converters) ==
    [plan |-> NoPlan, supported |-> Probe(redacters, media_type)]

create_redact_plan(redacters, media_type, converters) ==
    LET natural == Probe(redacters, media_type)
        as_text == Probe(redacters, Some("text/plain"))
        as_png == Probe(redacters, Some("image/png"))
    IN IF natural # <<>> THEN [plan |-> NoPlan, supported |-> natural]
       ELSE IF media_type = None THEN [plan |-> NoPlan, supported |-> <<>>]
       ELSE LET file_ref_media == CHOOSE m \in media_type : TRUE IN
         IF is_mime_table(file_ref_media)
         THEN [plan |-> [NoPlan EXCEPT !.leave_data_table_as_text = (as_text # <<>>)],
               supported |-> as_text]
         ELSE IF converters.pdf_image_converter /\ is_mime_pdf(file_ref_media)
         THEN IF as_png # <<>>
              THEN [plan |-> [NoPlan EXCEPT !.apply_pdf_image_converter = TRUE],
                    supported |-> as_png]
              ELSE IF converters.ocr
                   THEN [plan |-> [NoPlan EXCEPT !.apply_pdf_image_converter = (as_text # <<>>),
                                                 !.apply_ocr = (as_text # <<>>)],
                         supported |-> as_text]
                   ELSE [plan |-> NoPlan, supported |-> <<>>]
         ELSE IF converters.ocr /\ is_mime_image(file_ref_media)
         THEN [plan |-> [NoPlan EXCEPT !.apply_ocr = (as_text # <<>>)], supported |-> as_text]
         ELSE [plan |-> NoPlan, supported |-> <<>>]

\* ----------------------------------------------------------------------
\* StreamRedacter::redact_stream and its conversion paths.  Every step
\* returns whether it returned Ok, the item, the number of backend requests
\* sent so far (calls) and the number of redact calls that returned Ok so
\* far (okCalls).
\* ----------------------------------------------------------------------
Step(ok, item, calls, okCalls) ==
    [ok |-> ok, item |-> item, calls |-> calls, okCalls |-> okCalls]

\* Each operator below that uses the result of a call more than once takes
\* that result as its last parameter: it is the code after the call.

\* a redact call that is given the materialized item and not the item of
\* the redacter before it
Redacted_unfed(r, calls, okCalls) ==
    Step(r.ok,
         [r.item EXCEPT !.applied = IF @ = <<>> THEN @ ELSE <<@[Len(@)]>>],
         calls + (IF r.sent THEN 1 ELSE 0), okCalls + (IF r.ok THEN 1 ELSE 0))

\* redacter.redact(...).await, counted
Redacted(r, calls, okCalls) ==
    Step(r.ok, r.item, calls + (IF r.sent THEN 1 ELSE 0), okCalls + (IF r.ok THEN 1 ELSE 0))

\* the plain branch of the loop: redacter.redact(redacted)
redact_directly(redacted, redacter, calls, okCalls, env) ==
    Redacted(redact(redacter, redacted, calls, env), calls, okCalls)

stream_to_redact_item(media_type, redact_plan, env) ==
    IF media_type = None \/ ~env.readOk THEN [ok |-> FALSE, item |-> Item("None", "", 0, <<>>)]
    ELSE LET mime == CHOOSE m \in media_type : TRUE IN
      IF is_mime_text(mime) \/ (is_mime_table(mime) /\ redact_plan.leave_data_table_as_text)
      THEN [ok |-> TRUE, item |-> Item("Value", "", 0, <<>>)]
      ELSE IF is_mime_image(mime) THEN [ok |-> TRUE, item |-> Item("Image", mime, 0, <<>>)]
      ELSE IF is_mime_table(mime) THEN [ok |-> TRUE, item |-> Item("Table", "", 0, <<>>)]
      ELSE IF is_mime_pdf(mime) THEN [ok |-> TRUE, item |-> Item("Pdf", "", env.pages, <<>>)]
      ELSE [ok |-> FALSE, item |-> Item("None", "", 0, <<>>)]

\* redact_with_ocr_converter after the redacter returned redacted_text: the
\* words it removed are painted over in the image
OcrRedacted(redacted, redacted_text) ==
    IF ~redacted_text.ok \/ redacted_text.item.variant # "Value"
    THEN Step(FALSE, redacted, redacted_text.calls, redacted_text.okCalls)
    ELSE Step(TRUE, [redacted EXCEPT !.applied = redacted_text.item.applied],
              redacted_text.calls, redacted_text.okCalls)

redact_with_ocr_converter(redacted, redacter, calls, okCalls, env) ==
    IF redacted.variant # "Image" THEN Step(TRUE, redacted, calls, okCalls)
    ELSE IF ImageFormat_from_mime_type(redacted.mime) = None
         THEN Step(TRUE, redacted, calls, okCalls)
    ELSE IF ~env.convOk THEN Step(FALSE, redacted, calls, okCalls)
    ELSE OcrRedacted(redacted,
                     redact_directly(Item("Value", "", 0, redacted.applied), redacter,
                                     calls, okCalls, env))

RECURSIVE RedactPages(_, _, _, _, _, _, _, _)
\* the body of the loop over pdf_info.pages after the page was redacted
PageRedacted(p, pages, pushed, redacter, ocr, env, redacted_image) ==
    IF ~redacted_image.ok
    THEN [ok |-> FALSE, pushed |-> pushed, calls |-> redacted_image.calls,
          okCalls |-> redacted_image.okCalls]
    ELSE RedactPages(p + 1, pages,
                     pushed + (IF redacted_image.item.variant = "Image" THEN 1 ELSE 0),
                     redacter, ocr, redacted_image.calls, redacted_image.okCalls, env)

\* the loop over pdf_info.pages from page p on; pushed counts redacted_pages
RedactPages(p, pages, pushed, redacter, ocr, calls, okCalls, env) ==
    IF p > pages THEN [ok |-> TRUE, pushed |-> pushed, calls |-> calls, okCalls |-> okCalls]
    ELSE PageRedacted(p, pages, pushed, redacter, ocr, env,
                      IF ocr # None
                      THEN redact_with_ocr_converter(Item("Image", "image/png", 0, <<>>),
                                                     redacter, calls, okCalls, env)
                      ELSE redact_directly(Item("Image", "image/png", 0, <<>>),
                                           redacter, calls, okCalls, env))

\* redact_pdf_with_images_converter after the loop: images_to_pdf
PagesRedacted(redacted, redacter, done) ==
    IF ~done.ok THEN Step(FALSE, redacted, done.calls, done.okCalls)
    ELSE Step(TRUE,
              Item("Pdf", "", done.pushed,
                   IF done.pushed > 0 THEN Append(redacted.applied, redacter)
                   ELSE redacted.applied),
              done.calls, done.okCalls)

redact_pdf_with_images_converter(redacted, redacter, ocr, calls, okCalls, env) ==
    IF redacted.variant # "Pdf" THEN Step(TRUE, redacted, calls, okCalls)
    ELSE IF ~env.convOk THEN Step(FALSE, redacted, calls, okCalls)
    ELSE PagesRedacted(redacted, redacter,
                       RedactPages(1, redacted.pages, 0, redacter, ocr, calls, okCalls, env))

\* number_of_redactions += 1 after a conversion or redact call returned Ok
Counted(step) == [step |-> step, counted |-> step.ok]

\* one iteration of the for loop of redact_stream: the step and whether
\* number_of_redactions is incremented
RedactWith(redacted, redacter, redact_plan, converters, calls, okCalls, env) ==
    IF redact_plan.apply_pdf_image_converter
    THEN IF converters.pdf_image_converter /\ (~redact_plan.apply_ocr \/ converters.ocr)
         THEN Counted(redact_pdf_with_images_converter(
                          redacted, redacter,
                          IF ~redact_plan.apply_ocr THEN None ELSE Some("ocr"),
                          calls, okCalls, env))
         ELSE [step |-> Step(TRUE, redacted, calls, okCalls), counted |-> FALSE]
    ELSE IF redact_plan.apply_ocr
         THEN IF converters.ocr
              THEN Counted(redact_with_ocr_converter(redacted, redacter, calls, okCalls, env))
              ELSE [step |-> Step(TRUE, redacted, calls, okCalls), counted |-> FALSE]
         ELSE Counted(redact_directly(redacted, redacter, calls, okCalls, env))

\* the state of the for loop after one iteration
Iterated(acc, r) ==
    [ok |-> r.step.ok, item |-> r.step.item,
     number_of_redactions |-> acc.number_of_redactions + (IF r.counted THEN 1 ELSE 0),
     calls |-> r.step.calls, okCalls |-> r.step.okCalls]

RECURSIVE RedactLoop(_, _, _, _, _, _)
RedactLoop(redacters, index, acc, redact_plan, converters, env) ==
    IF index > Len(redacters) \/ ~acc.ok THEN acc
    ELSE RedactLoop(redacters, index + 1,
                    Iterated(acc, RedactWith(acc.item, redacters[index], redact_plan,
                                             converters, acc.calls, acc.okCalls, env)),
                    redact_plan, converters, env)

\* the state of redact_stream before its for loop
Materialized(redacted) ==
    [ok |-> redacted.ok, item |-> redacted.item, number_of_redactions |-> 0,
     calls |-> 0, okCalls |-> 0]

\* the result: ok (Ok or Err), number_of_redactions, the item whose bytes
\* form the output stream, calls and okCalls
redact_stream(redact_plan, redacters, media_type, converters, env) ==
    RedactLoop(redacters, 1, Materialized(stream_to_redact_item(media_type, redact_plan, env)),
               redact_plan, converters, env)

\* ----------------------------------------------------------------------
\* DlpRequestLimit (common_types.rs) and the throttler it builds
\* ----------------------------------------------------------------------
\* the period of every limit of the model, in clock ticks
Period == 2

to_rate_limit_in_ms(limit) == limit.per \div limit.value

to_rate_limit_capacity(limit) == limit.per \div to_rate_limit_in_ms(limit)

\* RedacterThrottler::new: a full bucket, last refilled at creation
ThrottlerNew(capacity, rate_limit_in_ms, created) ==
    [capacity |-> capacity, rate_limit_in_ms |-> rate_limit_in_ms, tokens |-> capacity,
     last_tick |-> created, delay |-> 0]

to_throttling_counter(limit, created) ==
    ThrottlerNew(to_rate_limit_capacity(limit), to_rate_limit_in_ms(limit), created)

Min(a, b) == IF a <= b THEN a ELSE b

Max(a, b) == IF a >= b THEN a ELSE b

\* RedacterThrottler::update: refill one token per elapsed interval up to
\* the capacity, then take one; with no token left the caller is told to
\* wait for the rest of the interval
ThrottlerUpdate(throttler, at) ==
    LET elapsed == at - throttler.last_tick
        arrived == elapsed \div throttler.rate_limit_in_ms
        available == Min(throttler.tokens + arrived, throttler.capacity)
    IN IF available > 0
       THEN [throttler EXCEPT !.tokens = available - 1, !.last_tick = at, !.delay = 0]
       ELSE [throttler EXCEPT !.tokens = available,
                              !.delay = Max(0, throttler.rate_limit_in_ms - elapsed),
                              !.last_tick = at + Max(0, throttler.rate_limit_in_ms - elapsed)]

\* RedacterThrottler::delay
ThrottlerDelay(throttler) == throttler.delay

\* ----------------------------------------------------------------------
\* ZipFileSystem: a connection is [mode, temp, path, log]. mode is the
\* variant of self.mode; temp the names extracted into the temporary
\* directory of read mode; path the file at zip_file_path: whether it
\* exists, whether it is a finished archive, and the names of its entries;
\* log the calls made on the connection, oldest first.
\* ----------------------------------------------------------------------
MaxZipCalls == 3

Names == {"file1.txt", "file2.txt"}

NoPath == [exists |-> FALSE, archive |-> FALSE, entries |-> <<>>]

NoZip == [mode |-> "None", temp |-> <<>>, path |-> NoPath, log |-> <<>>]

\* ZipFileSystem::new on a path that is not a directory
ZipFileSystem_new(path) == [NoZip EXCEPT !.path = path]

ZipResult(z, ok) == [zip |-> z, ok |-> ok]

\* the arm of a match on self.mode taken for every mode
ZipFileSystemMode_any(mode) == TRUE

\* the arm Some(ZipFileSystemMode::Write { .. }) of a match on self.mode
ZipFileSystemMode_Write(mode) == mode = "Write"

\* the arm Some(ZipFileSystemMode::Read { .. }) of a match on self.mode
ZipFileSystemMode_Read(mode) == mode = "Read"

\* a path at which no file is ever found
exists_never(path) == FALSE

\* self.zip_file_path.exists()
exists(path) == path.exists

\* extract_zip_for_read; io says whether opening, reading and extracting
\* the archive into a temporary directory succeed on a finished archive
extract_zip_for_read(z, io) ==
    IF z.mode = "None"
    THEN IF exists(z.path) /\ z.path.archive /\ io
         THEN ZipResult([z EXCEPT !.mode = "Read", !.temp = z.path.entries], TRUE)
         ELSE ZipResult(z, FALSE)
    ELSE ZipResult(z, TRUE)

\* LocalFileSystem::download of the temporary file system: the file is opened
TempDownload(z, name) == \E i \in 1..Len(z.temp) : z.temp[i] = name

\* download after extract_zip_for_read(...).await? returned extracted
ZipDownloaded(extracted, file_ref) ==
    IF ~extracted.ok THEN extracted
    ELSE IF ZipFileSystemMode_Read(extracted.zip.mode)
         THEN IF file_ref # None
              THEN ZipResult(extracted.zip, \E name \in file_ref : TempDownload(extracted.zip, name))
              ELSE ZipResult(extracted.zip, FALSE)
         ELSE ZipResult(extracted.zip, FALSE)

ZipDownload(z, file_ref, io) == ZipDownloaded(extract_zip_for_read(z, io), file_ref)

\* the first part of upload: the archive file is created when the
\* connection has no mode; io says whether File::create_new succeeds
ZipCreate(z, io) ==
    IF z.mode = "None"
    THEN IF exists(z.path)
         THEN ZipResult(z, FALSE)
         ELSE IF io
              THEN ZipResult([z EXCEPT !.mode = "Write",
                                       !.path = [exists |-> TRUE, archive |-> FALSE,
                                                 entries |-> <<>>]], TRUE)
              ELSE ZipResult(z, FALSE)
    ELSE ZipResult(z, TRUE)

\* start_file and the copy of the input's chunks into the entry; start says
\* whether start_file succeeds, input whether every chunk of the stream is Ok
ZipWrite(z, name, start, input) ==
    IF ~start THEN ZipResult(z, FALSE)
    ELSE ZipResult([z EXCEPT !.path.entries = Append(@, name)], input)

\* upload after its first part returned created
ZipUploaded(created, input, file_ref, start) ==
    IF ~created.ok THEN created
    ELSE IF ZipFileSystemMode_Write(created.zip.mode)
         THEN IF file_ref # None
              THEN ZipWrite(created.zip, CHOOSE name \in file_ref : TRUE, start, input)
              ELSE ZipResult(created.zip, FALSE)
         ELSE ZipResult(created.zip, FALSE)

ZipUpload(z, input, file_ref, io, start) == ZipUploaded(ZipCreate(z, io), input, file_ref, start)

\* list_files after extract_zip_for_read(...).await? returned extracted
ZipListed(extracted) ==
    IF ~extracted.ok THEN extracted
    ELSE ZipResult(extracted.zip, ZipFileSystemMode_Read(extracted.zip.mode))

ZipListFiles(z, io) == ZipListed(extract_zip_for_read(z, io))

\* close; io says whether zip_writer.finish() succeeds
ZipClose(z, io) ==
    IF ZipFileSystemMode_Write(z.mode)
    THEN IF io
         THEN ZipResult([z EXCEPT !.mode = "None", !.path.archive = TRUE], TRUE)
         ELSE ZipResult(z, FALSE)
    ELSE ZipResult([z EXCEPT !.mode = "None"], TRUE)

\* ----------------------------------------------------------------------
\* State of one invocation of command_copy (commands/copy_command.rs)
\* ----------------------------------------------------------------------
VARIABLES
    cfg,            \* the invocation: source, destination, options, redacter options
    pc,             \* position in command_copy
    listing,        \* source_files_result
    idx,            \* position of the for loop in source_files
    files_copied,   \* total_files_copied
    files_skipped,  \* total_files_skipped
    result,         \* what command_copy returned, "Running" before it returns
    listed,         \* list_files was called on the source
    opened,         \* source paths whose byte stream a download call opened
    uploads,        \* the upload calls made on the destination
    closed,         \* the connections closed so far, in order
    last,           \* what the last transfer_and_redact_file did; media_type is
                    \* that of the stream given to redact_stream, env what the
                    \* environment decided for it
    throttler,      \* redacter_throttler
    now,            \* the clock
    admissions,     \* the times at which backend requests were sent
    call,           \* the arguments of a function called on its own, if any
    ret,            \* what that call returned, if it has
    zip             \* a ZipFileSystem connection and the file at its archive path

vars == <<cfg, pc, listing, idx, files_copied, files_skipped, result, listed, opened,
          uploads, closed, last, throttler, now, admissions, call, ret, zip>>

NoLast == [file |-> <<>>, matched |-> "None", redacting |-> FALSE, media_type |-> None,
           plan |-> NoPlan, supported |-> <<>>, gated |-> FALSE, streamed |-> "None",
           number_of_redactions |-> 0, calls |-> 0, okCalls |-> 0, consumed |-> FALSE,
           upload |-> "None", outcome |-> "None", env |-> None]

\* ----------------------------------------------------------------------
\* redact_upload_file.  inp holds what the environment decides for this
\* file: the media type after the MIME override, the backend and conversion
\* outcomes, the outcome of the upload, the time elapsed before the gate
\* and the duration of each backend request.
\* ----------------------------------------------------------------------
\* commits requiring both a redaction and the permission
commits_both(number_of_redactions, redacter_base_options) ==
    number_of_redactions > 0 /\ redacter_base_options.allow_unsupported_copies

\* the guard of the first arm of the match on redact_stream's result
commits(number_of_redactions, redacter_base_options) ==
    number_of_redactions > 0 \/ redacter_base_options.allow_unsupported_copies

\* the Err arm handing the error on to the caller
redaction_error_propagated == "Err"

\* the file result of the Err arm of that match
redaction_error_result == "Skipped"

\* the upload call on the destination: the path written, the redacters whose
\* output the bytes are, and whether the call returned Ok
Upload(dest_file_ref, applied, okCalls, inp) ==
    [path |-> dest_file_ref.relative_path, applied |-> applied, okCalls |-> okCalls,
     ok |-> inp.uploadOk]

\* the match on the result of redact_stream; gate is the throttler after the
\* gate, start the time at which the first backend request is sent
StreamRedacted(dest_file_ref, redacter_base_options, planned, gate, start, clock, inp, redacted_result) ==
    LET finish == IF gate = None THEN clock ELSE start + redacted_result.calls * inp.callTime
        ran == [NoLast EXCEPT !.redacting = TRUE, !.media_type = inp.media_type,
                              !.plan = planned.plan, !.supported = planned.supported,
                              !.gated = (gate # None),
                              !.streamed = IF redacted_result.ok THEN "Ok" ELSE "Err",
                              !.number_of_redactions = redacted_result.number_of_redactions,
                              !.calls = redacted_result.calls,
                              !.okCalls = redacted_result.okCalls,
                              !.consumed = TRUE, !.env = Some(inp.env)]
        info == IF ~redacted_result.ok THEN [ran EXCEPT !.outcome = redaction_error_result]
                ELSE IF commits(redacted_result.number_of_redactions, redacter_base_options)
                THEN [ran EXCEPT !.upload = IF inp.uploadOk THEN "Ok" ELSE "Err",
                                 !.outcome = IF inp.uploadOk THEN "Copied" ELSE "Err"]
                ELSE [ran EXCEPT !.outcome = "Skipped"]
    IN [info |-> info,
        uploaded |-> IF redacted_result.ok
                        /\ commits(redacted_result.number_of_redactions, redacter_base_options)
                     THEN { Upload(dest_file_ref, redacted_result.item.applied,
                                   redacted_result.okCalls, inp) }
                     ELSE {},
        throttler |-> gate, clock |-> finish,
        times |-> [i \in 1..redacted_result.calls |-> start + (i - 1) * inp.callTime]]

\* the throttler gate: update(Instant::now()), then sleep(delay())
Gated(dest_file_ref, redacter_base_options, planned, file_converters, clock, inp, gate) ==
    StreamRedacted(dest_file_ref, redacter_base_options, planned, gate,
                   IF gate = None THEN clock
                   ELSE clock + inp.elapsed + ThrottlerDelay(CHOOSE t \in gate : TRUE),
                   clock, inp,
                   redact_stream(planned.plan, planned.supported, inp.media_type,
                                 file_converters, inp.env))

\* redact_upload_file after create_redact_plan
Planned(dest_file_ref, redacter_base_options, file_converters, redacter_throttler, clock, inp, planned) ==
    LET base == [NoLast EXCEPT !.redacting = TRUE, !.plan = planned.plan,
                               !.supported = planned.supported]
    IN IF planned.supported # <<>>
       THEN Gated(dest_file_ref, redacter_base_options, planned, file_converters, clock, inp,
                  { ThrottlerUpdate(t, clock + inp.elapsed) : t \in redacter_throttler })
       ELSE IF redacter_base_options.allow_unsupported_copies
            THEN [info |-> [base EXCEPT !.consumed = TRUE,
                                        !.upload = IF inp.uploadOk THEN "Ok" ELSE "Err",
                                        !.outcome = IF inp.uploadOk THEN "Copied" ELSE "Err"],
                  uploaded |-> { Upload(dest_file_ref, <<>>, 0, inp) },
                  throttler |-> redacter_throttler, clock |-> clock, times |-> <<>>]
            ELSE [info |-> [base EXCEPT !.outcome = "Skipped"],
                  uploaded |-> {}, throttler |-> redacter_throttler, clock |-> clock,
                  times |-> <<>>]

redact_upload_file(dest_file_ref, redacter_base_options, redacters, file_converters, redacter_throttler, clock, inp) ==
    Planned(dest_file_ref, redacter_base_options, file_converters, redacter_throttler, clock,
            inp, create_redact_plan(redacters, inp.media_type, file_converters))

\* LocalFileSystem::download: the ref it returns carries the file name only
DownloadedRef(entry, path) ==
    [relative_path |-> <<Last(path)>>, ext |-> entry.ext, file_size |-> Some(entry.size)]

RECURSIVE EntryAt(_, _)
EntryAt(dir, path) ==
    IF Len(path) = 1 THEN dir[path[1]] ELSE EntryAt(dir[path[1]].entries, Tail(path))

\* transfer_and_redact_file, after a download that returned Ok
transfer_and_redact_file(source_file_ref, base_file_ref, options, redacter, file_converters, redacter_throttler, clock, inp) ==
    LET matched == matches(options.file_matcher, base_file_ref)
        file_ref == IF source_file_ref = None THEN base_file_ref
                    ELSE CHOOSE r \in source_file_ref : TRUE
        dest_file_ref == file_ref
        done ==
            IF matched # "Matched"
            THEN [info |-> [NoLast EXCEPT !.outcome = "Skipped"], uploaded |-> {},
                  throttler |-> redacter_throttler, clock |-> clock, times |-> <<>>]
            ELSE IF redacter # None
                 THEN redact_upload_file(dest_file_ref,
                                         (CHOOSE r \in redacter : TRUE).base_options,
                                         (CHOOSE r \in redacter : TRUE).redacters,
                                         file_converters, redacter_throttler, clock, inp)
                 ELSE [info |-> [NoLast EXCEPT !.consumed = TRUE,
                                               !.upload = IF inp.uploadOk THEN "Ok" ELSE "Err",
                                               !.outcome = IF inp.uploadOk THEN "Copied"
                                                           ELSE "Err"],
                       uploaded |-> { Upload(dest_file_ref, <<>>, 0, inp) },
                       throttler |-> redacter_throttler, clock |-> clock, times |-> <<>>]
    IN [done EXCEPT !.info.file = file_ref.relative_path, !.info.matched = matched]

\* ----------------------------------------------------------------------
\* Invocations
\* ----------------------------------------------------------------------
Option(S) == {None} \cup { Some(v) : v \in S }

SeqsUpTo(S, n) == UNION { [1..k -> S] : k \in 0..n }

SingleFiles == { <<f>> : f \in FileEntries }

FileMatchers == [max_size_limit : Option(1..(MaxSize - 1)), filename_matcher : Option(Globs)]

NoMatcher == [max_size_limit |-> None, filename_matcher |-> None]

Limits(n) == [value : 1..n, per : {Period}]

Converters == [pdf_image_converter : BOOLEAN, ocr : BOOLEAN]

NoConverters == [pdf_image_converter |-> FALSE, ocr |-> FALSE]

RedacterOptions(redacterSeqs, limits) ==
    [base_options : [allow_unsupported_copies : BOOLEAN, limit_dlp_requests : limits],
     redacters : redacterSeqs]

Invocation(source, srcMulti, dstMulti, matcher, max_files_limit, redacter, converters) ==
    [source |-> source, has_multiple_files |-> srcMulti, accepts_multiple_files |-> dstMulti,
     options |-> [file_matcher |-> matcher, max_files_limit |-> max_files_limit],
     redacter |-> redacter, file_converters |-> converters]

\* the state after the connections are opened, the throttler built and the
\* redacters created (command_copy up to the has_multiple_files test), for
\* the invocation held by cfg
Fresh ==
    /\ listing = EMPTY
    /\ idx = 1
    /\ files_copied = 0
    /\ files_skipped = 0
    /\ result = "Running"
    /\ listed = FALSE
    /\ opened = {}
    /\ uploads = {}
    /\ closed = <<>>
    /\ last = NoLast
    /\ now = 0
    /\ throttler = UNION { { to_throttling_counter(limit, 0)
                             : limit \in o.base_options.limit_dlp_requests }
                           : o \in cfg.redacter }
    /\ admissions = <<>>

Started ==
    /\ Fresh
    /\ zip = NoZip
    /\ pc = "check"
    /\ call = None
    /\ ret = None

\* a file of the source; its media type is decided at each transfer
OneFile == [isDir |-> FALSE, ext |-> "txt", size |-> 1, entries |-> <<>>]

\* no redacter, or one that redacts text only and skips what it cannot redact
CopyRedacters ==
    { None,
      Some([base_options |-> [allow_unsupported_copies |-> FALSE, limit_dlp_requests |-> None],
            redacters |-> <<"AwsBedrock">>]) }

\* directories of up to MaxNodes entries and single files, every matcher and
\* files limit, with and without a redacter
Init ==
    /\ \/ \E src \in Trees(MaxNodes, FileEntries), m \in FileMatchers,
             lim \in Option(0..MaxFilesLimit), red \in CopyRedacters :
             cfg = Invocation(src, TRUE, TRUE, m, lim, red, NoConverters)
       \/ \E src \in Trees(MaxNodes, FileEntries) :
             cfg = Invocation(src, TRUE, FALSE, NoMatcher, None, None, NoConverters)
       \/ \E src \in SingleFiles, dst \in BOOLEAN, m \in FileMatchers, red \in CopyRedacters :
             cfg = Invocation(src, FALSE, dst, m, None, red, NoConverters)
    /\ Started

\* one file, alone or in a directory, and every pipeline of up to
\* MaxRedacters redacters and of converters
InitRedact ==
    /\ \E multi \in BOOLEAN, conv \in Converters,
          red \in RedacterOptions(SeqsUpTo(RedacterTypes, MaxRedacters) \ {<<>>}, {None}) :
          cfg = Invocation(<<OneFile>>, multi, TRUE, NoMatcher, None, Some(red), conv)
    /\ Started

\* one or two files under a request limit of up to MaxOps requests
InitThrottle ==
    /\ \E multi \in BOOLEAN, limit \in Limits(MaxOps),
          redacters \in {<<"AwsBedrock">>, <<"OpenAiLlm", "AwsBedrock">>} :
          cfg = Invocation(IF multi THEN <<OneFile, OneFile>> ELSE <<OneFile>>,
                           multi, TRUE, NoMatcher, None,
                           Some([base_options |-> [allow_unsupported_copies |-> FALSE,
                                                   limit_dlp_requests |-> Some(limit)],
                                 redacters |-> redacters]),
                           NoConverters)
    /\ Started

\* the listing on its own: trees of up to ListNodes entries of small files
\* under a name glob, and the trees of the copy under every matcher
InitList ==
    /\ \/ \E src \in Trees(ListNodes, SmallFileEntries), dst \in BOOLEAN,
             glob \in Option(Globs), lim \in Option(0..MaxFilesLimit) :
             cfg = Invocation(src, TRUE, dst,
                              [max_size_limit |-> None, filename_matcher |-> glob], lim,
                              None, NoConverters)
       \/ \E src \in Trees(MaxNodes, FileEntries), m \in FileMatchers,
             lim \in Option(0..MaxFilesLimit) :
             cfg = Invocation(src, TRUE, TRUE, m, lim, None, NoConverters)
    /\ Started

\* FileMatcher::matches on its own: every limit and size up to n, glob and path
MatchesCalls(n) ==
    [file_matcher : [max_size_limit : Option(0..n), filename_matcher : Option(Globs)],
     file_ref : [relative_path : {<<1>>, <<1, 1>>}, ext : Exts, file_size : Option(1..n)]]

InitMatches ==
    /\ cfg = Invocation(<<>>, FALSE, FALSE, NoMatcher, None, None, NoConverters)
    /\ Fresh
    /\ pc = "call"
    /\ call \in MatchesCalls(MaxSize)
    /\ ret = None
    /\ zip = NoZip

\* ----------------------------------------------------------------------
\* Steps of command_copy
\* ----------------------------------------------------------------------
Return(r) == pc' = "done" /\ result' = r

\* the test of has_multiple_files alone
CheckMultiple_unchecked ==
    /\ pc = "check"
    /\ pc' = IF cfg.has_multiple_files THEN "list" ELSE "single"
    /\ UNCHANGED <<zip, call, ret, cfg, listing, idx, files_copied, files_skipped, result, listed,
                   opened, uploads, closed, last, throttler, now, admissions>>

\* the test of has_multiple_files and accepts_multiple_files
CheckMultiple ==
    /\ pc = "check"
    /\ IF cfg.has_multiple_files
       THEN IF ~cfg.accepts_multiple_files
            THEN Return("DestinationDoesNotSupportMultipleFiles")
            ELSE pc' = "list" /\ result' = result
       ELSE pc' = "single" /\ result' = result
    /\ UNCHANGED <<zip, call, ret, cfg, listing, idx, files_copied, files_skipped, listed, opened, uploads,
                   closed, last, throttler, now, admissions>>

\* source_fs.list_files(...)?, the listing cannot be read or is read
ListFails ==
    /\ pc = "list"
    /\ listed' = TRUE
    /\ Return("ListError")
    /\ UNCHANGED <<zip, call, ret, cfg, listing, idx, files_copied, files_skipped, opened, uploads,
                   closed, last, throttler, now, admissions>>

\* the listing with its rejections left out of the skipped count
ListSource_uncounted ==
    /\ pc = "list"
    /\ listed' = TRUE
    /\ listing' = list_files(cfg.source, Some(cfg.options.file_matcher),
                             cfg.options.max_files_limit)
    /\ files_copied' = 0
    /\ files_skipped' = 0
    /\ idx' = 1
    /\ pc' = "loop"
    /\ UNCHANGED <<zip, call, ret, cfg, result, opened, uploads, closed, last, throttler, now,
                   admissions>>

ListSource ==
    /\ pc = "list"
    /\ listed' = TRUE
    /\ listing' = list_files(cfg.source, Some(cfg.options.file_matcher),
                             cfg.options.max_files_limit)
    /\ files_copied' = 0
    /\ files_skipped' = listing'.skipped
    /\ idx' = 1
    /\ pc' = "loop"
    /\ UNCHANGED <<zip, call, ret, cfg, result, opened, uploads, closed, last, throttler, now, admissions>>

\* what the environment decides for one file
Inputs ==
    IF cfg.redacter = None
    THEN [media_type : {None}, env : EnvsFor(None, 0), uploadOk : BOOLEAN,
          elapsed : {0}, callTime : {0}]
    ELSE LET redacters == (CHOOSE r \in cfg.redacter : TRUE).redacters
             n(media_type) ==
                 Len(create_redact_plan(redacters, media_type, cfg.file_converters).supported)
             timed(media_type) == throttler # None /\ n(media_type) > 0
         IN UNION { [media_type : {media_type}, env : EnvsFor(media_type, n(media_type)),
                     uploadOk : BOOLEAN,
                     elapsed : IF timed(media_type) THEN 0..MaxElapsed ELSE {0},
                     callTime : IF timed(media_type) THEN 0..MaxCallTime ELSE {0}]
                    : media_type \in Option(MimeKinds) }

\* source_fs.download(...)? fails: command_copy returns the error
DownloadFails(path) ==
    /\ Return("DownloadError")
    /\ last' = [NoLast EXCEPT !.file = path, !.outcome = "Err"]
    /\ UNCHANGED <<zip, call, ret, cfg, listing, idx, files_copied, files_skipped, listed, opened, uploads,
                   closed, throttler, now, admissions>>

\* one call of transfer_and_redact_file whose download returned Ok, and
\* what command_copy does with its result
Transfer(source_file_ref, path, multi) ==
    \E inp \in Inputs :
      \E t \in { transfer_and_redact_file(source_file_ref,
                                           DownloadedRef(EntryAt(cfg.source, path), path),
                                           cfg.options, cfg.redacter, cfg.file_converters,
                                           throttler, now, inp) } :
         /\ t.clock <= MaxTime
         /\ opened' = opened \cup {path}
         /\ uploads' = uploads \cup t.uploaded
         /\ last' = t.info
         /\ throttler' = t.throttler
         /\ now' = t.clock
         /\ admissions' = admissions \o t.times
         /\ IF t.info.outcome = "Err"
            THEN /\ Return("UploadError")
                 /\ UNCHANGED <<idx, files_copied, files_skipped>>
            ELSE /\ files_copied' = files_copied + (IF t.info.outcome = "Copied" THEN 1 ELSE 0)
                 /\ files_skipped' = files_skipped + (IF t.info.outcome = "Skipped" THEN 1 ELSE 0)
                 /\ idx' = idx + 1
                 /\ pc' = IF multi THEN "loop" ELSE "close_destination"
                 /\ result' = result
         /\ UNCHANGED <<zip, call, ret, cfg, listing, listed, closed>>

\* the body of the for loop over source_files
TransferNext ==
    /\ pc = "loop"
    /\ idx <= Len(listing.files)
    /\ LET source_file == listing.files[idx]
       IN \/ DownloadFails(source_file.relative_path)
          \/ Transfer(Some(source_file), source_file.relative_path, TRUE)

\* the end of the for loop
LoopDone ==
    /\ pc = "loop"
    /\ idx > Len(listing.files)
    /\ pc' = "close_destination"
    /\ UNCHANGED <<zip, call, ret, cfg, listing, idx, files_copied, files_skipped, result, listed, opened,
                   uploads, closed, last, throttler, now, admissions>>

\* the single-file branch
TransferSingle ==
    /\ pc = "single"
    /\ \/ DownloadFails(<<1>>)
       \/ Transfer(None, <<1>>, FALSE)

\* destination_fs.close().await?
CloseDestination ==
    /\ pc = "close_destination"
    /\ \/ /\ closed' = Append(closed, "destination")
          /\ pc' = "close_source"
          /\ result' = result
       \/ /\ closed' = closed
          /\ Return("CloseError")
    /\ UNCHANGED <<zip, call, ret, cfg, listing, idx, files_copied, files_skipped, listed, opened,
                   uploads, last, throttler, now, admissions>>

\* source_fs.close().await? and the return of copy_result
CloseSource ==
    /\ pc = "close_source"
    /\ \/ /\ closed' = Append(closed, "source")
          /\ Return("Ok")
       \/ /\ closed' = closed
          /\ Return("CloseError")
    /\ UNCHANGED <<zip, call, ret, cfg, listing, idx, files_copied, files_skipped, listed, opened,
                   uploads, last, throttler, now, admissions>>

Next ==
    \/ CheckMultiple
    \/ ListFails
    \/ ListSource
    \/ TransferNext
    \/ LoopDone
    \/ TransferSingle
    \/ CloseDestination
    \/ CloseSource

Spec == Init /\ [][Next]_vars

\* the redaction pipeline under every set of redacters and converters
SpecRedact == InitRedact /\ [][Next]_vars

\* the copy under a request limit
SpecThrottle == InitThrottle /\ [][Next]_vars

\* command_copy up to the listing of the source
NextList ==
    \/ CheckMultiple
    \/ ListFails
    \/ ListSource

SpecList == InitList /\ [][NextList]_vars

\* a call of FileMatcher::matches
MatchesCall ==
    /\ pc = "call"
    /\ ret = None
    /\ ret' = Some(matches(call.file_matcher, call.file_ref))
    /\ UNCHANGED <<zip, call, cfg, pc, listing, idx, files_copied, files_skipped, result, listed,
                   opened, uploads, closed, last, throttler, now, admissions>>

SpecMatches == InitMatches /\ [][MatchesCall]_vars

\* ----------------------------------------------------------------------
\* Calls on a ZipFileSystem connection (filesystems/zip.rs)
\* ----------------------------------------------------------------------
ZipPaths ==
    { NoPath,
      [exists |-> TRUE, archive |-> FALSE, entries |-> <<>>],
      [exists |-> TRUE, archive |-> TRUE, entries |-> <<"file1.txt">>],
      [exists |-> TRUE, archive |-> TRUE, entries |-> <<"file1.txt", "file2.txt">>] }

InitZip ==
    /\ cfg = Invocation(<<>>, FALSE, FALSE, NoMatcher, None, None, NoConverters)
    /\ Fresh
    /\ pc = "zip"
    /\ call = None
    /\ ret = None
    /\ \E path \in ZipPaths : zip = ZipFileSystem_new(path)

\* the call op(file_ref) returned r
ZipCalled(op, file_ref, r) ==
    /\ zip' = [r.zip EXCEPT !.log = Append(zip.log, [op |-> op, file_ref |-> file_ref, ok |-> r.ok])]
    /\ UNCHANGED <<call, ret, cfg, listing, idx, files_copied, files_skipped, result, listed,
                   opened, uploads, closed, last, throttler, now, admissions>>

CallDownload ==
    /\ pc = "zip"
    /\ Len(zip.log) < MaxZipCalls
    /\ \E file_ref \in Option(Names), io \in BOOLEAN :
           ZipCalled("download", file_ref, ZipDownload(zip, file_ref, io))
    /\ pc' = pc

CallUpload ==
    /\ pc = "zip"
    /\ Len(zip.log) < MaxZipCalls
    /\ \E file_ref \in Option(Names), input \in BOOLEAN, io \in BOOLEAN, start \in BOOLEAN :
           ZipCalled("upload", file_ref, ZipUpload(zip, input, file_ref, io, start))
    /\ pc' = pc

CallListFiles ==
    /\ pc = "zip"
    /\ Len(zip.log) < MaxZipCalls
    /\ \E io \in BOOLEAN : ZipCalled("list_files", None, ZipListFiles(zip, io))
    /\ pc' = pc

\* close takes the connection by value: no call follows it
CallClose ==
    /\ pc = "zip"
    /\ \E io \in BOOLEAN : ZipCalled("close", None, ZipClose(zip, io))
    /\ pc' = "done"

NextZip ==
    \/ CallDownload
    \/ CallUpload
    \/ CallListFiles
    \/ CallClose

SpecZip == InitZip /\ [][NextZip]_vars

\* ----------------------------------------------------------------------
\* The entity-span redacters (redacters/aws_comprehend.rs,
\* redacters/ms_presidio.rs). A text is a String: a sequence of bytes that
\* is valid UTF-8. "J" and "X" are one-byte characters, <<"c3", "a9">> the
\* two bytes of one character. Offsets count bytes, as String::len and the
\* slices of a String do. A string operation that panics gives Panic, which
\* is no String.
\* ----------------------------------------------------------------------
MaxText == 3

MaxEntities == 2

Panic == <<"panicked">>

Bytes == {"J", "X", "c3", "a9"}

\* the byte sequences that are Strings
is_utf8(s) ==
    \A i \in 1..Len(s) :
        /\ s[i] = "c3" => (i < Len(s) /\ s[i + 1] = "a9")
        /\ s[i] = "a9" => (i > 1 /\ s[i - 1] = "c3")

Texts(n) == { s \in SeqsUpTo(Bytes, n) : is_utf8(s) }

\* str::is_char_boundary
is_char_boundary(s, index) ==
    \/ index = 0
    \/ index = Len(s)
    \/ index < Len(s) /\ s[index + 1] # "a9"

\* acc[..end]
slice_to(s, end) ==
    IF end <= Len(s) /\ is_char_boundary(s, end) THEN SubSeq(s, 1, end) ELSE Panic

\* acc[start..]
slice_from(s, start) ==
    IF start <= Len(s) /\ is_char_boundary(s, start) THEN SubSeq(s, start + 1, Len(s)) ELSE Panic

\* "X".repeat(n); a negative n is what a subtraction that overflows asks for
repeat_X(n) == IF n >= 0 THEN [i \in 1..n |-> "X"] ELSE Panic

\* [a, b, c].concat()
concat(a, b, c) == IF Panic \in {a, b, c} THEN Panic ELSE a \o b \o c

\* the closure folded over the entities: one span masked in acc
mask_entity(acc, entity) ==
    IF acc = Panic THEN Panic
    ELSE IF entity.start # None /\ entity.end # None
         THEN concat(slice_to(acc, CHOOSE v \in entity.start : TRUE),
                     repeat_X((CHOOSE v \in entity.end : TRUE) - (CHOOSE v \in entity.start : TRUE)),
                     slice_from(acc, CHOOSE v \in entity.end : TRUE))
    ELSE IF entity.start # None
         THEN concat(slice_to(acc, CHOOSE v \in entity.start : TRUE),
                     repeat_X(Len(acc) - (CHOOSE v \in entity.start : TRUE)), <<>>)
    ELSE IF entity.end # None
         THEN concat(<<>>, repeat_X(CHOOSE v \in entity.end : TRUE),
                     slice_from(acc, CHOOSE v \in entity.end : TRUE))
    ELSE acc

\* iter().fold(text_content, ...) from the entity at position i on
RECURSIVE fold_entities(_, _, _)
fold_entities(acc, entities, i) ==
    IF i > Len(entities) THEN acc
    ELSE fold_entities(mask_entity(acc, entities[i]), entities, i + 1)

DISALLOW_ENTITY_TYPES == {"US_DRIVER_LICENSE"}

EntityTypes == {"PERSON", "US_DRIVER_LICENSE"}

\* .filter(|item| !DISALLOW_ENTITY_TYPES.contains(item.entity_type))
RECURSIVE filter_allowed(_, _)
filter_allowed(items, i) ==
    IF i > Len(items) THEN <<>>
    ELSE (IF items[i].entity_type \in DISALLOW_ENTITY_TYPES THEN <<>> ELSE <<items[i]>>)
         \o filter_allowed(items, i + 1)

\* AwsComprehendRedacter::redact_text_file on the entities the service found
aws_comprehend_redact_text_file(text_content, entities) ==
    fold_entities(text_content, entities, 1)

\* MsPresidioRedacter::redact_text_file on the items the analyzer returned
ms_presidio_redact_text_file(text_content, response_items) ==
    fold_entities(text_content, filter_allowed(response_items, 1), 1)

redact_text_file(redacter, text_content, entities) ==
    IF redacter = "AwsComprehend"
    THEN aws_comprehend_redact_text_file(text_content, entities)
    ELSE ms_presidio_redact_text_file(text_content, entities)

\* the answers of the service about a text of len bytes
Entities(redacter, len) ==
    [entity_type : IF redacter = "MsPresidio" THEN EntityTypes ELSE {"PERSON"},
     start : Option(0..len), end : Option(0..len)]

InitMask ==
    /\ cfg = Invocation(<<>>, FALSE, FALSE, NoMatcher, None, None, NoConverters)
    /\ Fresh
    /\ zip = NoZip
    /\ pc = "redact_text_file"
    /\ ret = None
    /\ \E redacter \in {"AwsComprehend", "MsPresidio"}, text \in Texts(MaxText) :
         \E entities \in SeqsUpTo(Entities(redacter, Len(text)), MaxEntities) :
           call = [redacter |-> redacter, text |-> text, entities |-> entities]

\* a call of redact_text_file
MaskCall ==
    /\ pc = "redact_text_file"
    /\ ret = None
    /\ ret' = Some(redact_text_file(call.redacter, call.text, call.entities))
    /\ UNCHANGED <<zip, call, cfg, pc, listing, idx, files_copied, files_skipped, result, listed,
                   opened, uploads, closed, last, throttler, now, admissions>>

SpecMask == InitMask /\ [][MaskCall]_vars

\* ----------------------------------------------------------------------
\* redact_rgba_image_at_coords (redacters/simple_image_redacter.rs). An f32
\* is held as its multiple of 1/F32Unit; the coordinates are multiples of
\* 1/2 and the approximation factors multiples of 1/4, so every product and
\* sum below is exact in f32. An image is its width and height; the result
\* is the set of pixels put_pixel wrote.
\* ----------------------------------------------------------------------
MaxDim == 2

F32Unit == 8

\* the f32 of an integer
f32(n) == n * F32Unit

\* a * b in f32
f32_mul(a, b) == (a * b) \div F32Unit

\* v as u32: towards zero, and 0 for a negative v
as_u32(v) == IF v <= 0 THEN 0 ELSE v \div F32Unit

\* x.min(image.width() - 1)
safe(x, size) == Min(x, size - 1)

\* the body of the loop over pii_coords for one rectangle
RedactAtCoords(width, height, c, approximation_factor) ==
    { <<safe(x, width), safe(y, height)>> :
        x \in as_u32(c.x1 - f32_mul(c.x1, approximation_factor))
              ..(as_u32(c.x2 + f32_mul(c.x2, approximation_factor)) - 1),
        y \in as_u32(c.y1 - f32_mul(c.y1, approximation_factor))
              ..(as_u32(c.y2 + f32_mul(c.y2, approximation_factor)) - 1) }

redact_rgba_image_at_coords(width, height, pii_coords, approximation_factor) ==
    UNION { RedactAtCoords(width, height, pii_coords[i], approximation_factor)
            : i \in 1..Len(pii_coords) }

\* coordinates from one pixel left of the image to one right of the widest
ImageCoords(n) == { k * (F32Unit \div 2) : k \in (-2)..(2 * (n + 1)) }

\* the factors 0, 1/4, 1 and 2
ApproximationFactors == {0, F32Unit \div 4, F32Unit, 2 * F32Unit}

TextImageCoords(n) ==
    { c \in [x1 : ImageCoords(n), y1 : ImageCoords(n), x2 : ImageCoords(n), y2 : ImageCoords(n)] :
        c.x1 <= c.x2 /\ c.y1 <= c.y2 }

InitImage ==
    /\ cfg = Invocation(<<>>, FALSE, FALSE, NoMatcher, None, None, NoConverters)
    /\ Fresh
    /\ zip = NoZip
    /\ pc = "redact_rgba_image_at_coords"
    /\ ret = None
    /\ \E width \in 1..MaxDim, height \in 1..MaxDim, a \in ApproximationFactors :
         \E pii_coords \in SeqsUpTo(TextImageCoords(MaxDim), 1) :
           call = [width |-> width, height |-> height, pii_coords |-> pii_coords,
                   approximation_factor |-> a]

\* a call of redact_rgba_image_at_coords
ImageCall ==
    /\ pc = "redact_rgba_image_at_coords"
    /\ ret = None
    /\ ret' = Some(redact_rgba_image_at_coords(call.width, call.height, call.pii_coords,
                                               call.approximation_factor))
    /\ UNCHANGED <<zip, call, cfg, pc, listing, idx, files_copied, files_skipped, result, listed,
                   opened, uploads, closed, last, throttler, now, admissions>>

SpecImage == InitImage /\ [][ImageCall]_vars

\* ----------------------------------------------------------------------
\* redact_text_file of the generative-LLM redacters (redacters/open_ai_llm.rs,
\* gemini_llm.rs, gcp_vertex_ai.rs, aws_bedrock.rs). A text is a sequence of
\* tokens; the separator of a request is one token.
\* ----------------------------------------------------------------------
MaxParts == 2

LlmRedacters == {"OpenAiLlm", "GeminiLlm", "GcpVertexAi", "AwsBedrock"}

\* format!("---{}", rand.gen::<u64>())
Separators == {"---1", "---2"}

\* what a model writes: the replacement word, or a separator
LlmTexts == SeqsUpTo({"[REDACTED]", "---1"}, MaxParts)

\* a part of a candidate that is no text
NonText == <<"inline_data">>

contains(text, pattern) == \E i \in 1..Len(text) : text[i] = pattern

\* the fold over content.parts: the texts appended, other parts left out
RECURSIVE fold_parts(_, _)
fold_parts(parts, i) ==
    IF i > Len(parts) THEN <<>>
    ELSE (IF parts[i] = NonText THEN <<>> ELSE parts[i]) \o fold_parts(parts, i + 1)

\* .collect::<Vec<&str>>().join("\n")
RECURSIVE join(_, _)
join(texts, i) ==
    IF i > Len(texts) THEN <<>>
    ELSE IF i = Len(texts) THEN texts[i]
    ELSE texts[i] \o <<"\n">> \o join(texts, i + 1)

\* str::trim
RECURSIVE trim(_)
trim(text) ==
    IF text = <<>> THEN text
    ELSE IF text[1] = "\n" THEN trim(Tail(text))
    ELSE IF text[Len(text)] = "\n" THEN trim(SubSeq(text, 1, Len(text) - 1))
    ELSE text

\* AwsBedrockModel::decode_response on the texts found in the response body
decode_response(texts) == { trim(join(found, 1)) : found \in texts }

LlmOk(content) == [ok |-> TRUE, content |-> content]

LlmErr == [ok |-> FALSE, content |-> <<>>]

\* OpenAiLlmRedacter::redact_text_file on the choices of the response
open_ai_llm_redact_text_file(choices) ==
    IF choices # <<>> THEN LlmOk(Last(choices)) ELSE LlmErr

\* GeminiLlmRedacter and GcpVertexAiRedacter::redact_text_file on the
\* candidates of the response, each with its content if it has one
gemini_llm_redact_text_file(candidates) ==
    IF candidates # <<>> /\ candidates[1] # None
    THEN LlmOk(fold_parts(CHOOSE parts \in candidates[1] : TRUE, 1))
    ELSE LlmErr

\* AwsBedrockRedacter::redact_text_file on the texts of the response body
aws_bedrock_redact_text_file(texts) ==
    IF decode_response(texts) # None
    THEN LlmOk(CHOOSE content \in decode_response(texts) : TRUE)
    ELSE LlmErr

llm_redact_text_file(redacter, variant, response) ==
    IF variant # "Value" THEN LlmErr
    ELSE IF redacter = "OpenAiLlm" THEN open_ai_llm_redact_text_file(response)
    ELSE IF redacter = "AwsBedrock" THEN aws_bedrock_redact_text_file(response)
    ELSE gemini_llm_redact_text_file(response)

\* the responses of the service; Gemini is given the separator as a stop
\* sequence, so its texts end before it
LlmResponses(redacter, separator) ==
    IF redacter = "OpenAiLlm" THEN SeqsUpTo(LlmTexts, MaxParts)
    ELSE IF redacter = "AwsBedrock" THEN Option(SeqsUpTo(LlmTexts, MaxParts))
    ELSE IF redacter = "GcpVertexAi"
         THEN SeqsUpTo(Option(SeqsUpTo(LlmTexts \cup {NonText}, MaxParts)), 1)
    ELSE SeqsUpTo(Option(SeqsUpTo({ t \in LlmTexts : ~contains(t, separator) } \cup {NonText},
                                  MaxParts)), 1)

InitLlm ==
    /\ cfg = Invocation(<<>>, FALSE, FALSE, NoMatcher, None, None, NoConverters)
    /\ Fresh
    /\ zip = NoZip
    /\ pc = "llm_redact_text_file"
    /\ ret = None
    /\ \E redacter \in LlmRedacters, separator \in Separators, variant \in {"Value", "Image"} :
         \E response \in LlmResponses(redacter, separator) :
           call = [redacter |-> redacter, separator |-> separator, variant |-> variant,
                   response |-> response]

\* a call of redact_text_file of a generative-LLM redacter
LlmCall ==
    /\ pc = "llm_redact_text_file"
    /\ ret = None
    /\ ret' = Some(llm_redact_text_file(call.redacter, call.variant, call.response))
    /\ UNCHANGED <<zip, call, cfg, pc, listing, idx, files_copied, files_skipped, result, listed,
                   opened, uploads, closed, last, throttler, now, admissions>>

SpecLlm == InitLlm /\ [][LlmCall]_vars

\* ----------------------------------------------------------------------
\* The throttler of a request limit given on the command line
\* (DlpRequestLimit::from_str and to_throttling_counter, common_types.rs)
\* ----------------------------------------------------------------------
\* the largest number of requests of a limit
MaxLimit == 60

Units == {"rps", "rpm"}

\* from_str after the number is parsed: the period in milliseconds is a
\* second for "rps" and a minute for "rpm"
from_str(number, unit) ==
    [value |-> number, per |-> IF unit = "rps" THEN 1000 ELSE 60000]

InitLimit ==
    /\ cfg = Invocation(<<>>, FALSE, FALSE, NoMatcher, None, None, NoConverters)
    /\ Fresh
    /\ zip = NoZip
    /\ pc = "to_throttling_counter"
    /\ ret = None
    /\ \E number \in 1..MaxLimit, unit \in Units :
         call = [number |-> number, unit |-> unit]

\* the throttler built for the limit of the command line
LimitCall ==
    /\ pc = "to_throttling_counter"
    /\ ret = None
    /\ ret' = Some(to_throttling_counter(from_str(call.number, call.unit), 0))
    /\ UNCHANGED <<zip, call, cfg, pc, listing, idx, files_copied, files_skipped, result, listed,
                   opened, uploads, closed, last, throttler, now, admissions>>

SpecLimit == InitLimit /\ [][LimitCall]_vars

\* ----------------------------------------------------------------------
\* The throttler of every limit DlpRequestLimit::new accepts: a positive
\* number of requests and a positive period in milliseconds, those the
\* parser builds for a large number of requests included
\* ----------------------------------------------------------------------
\* the largest number of requests and the longest period in milliseconds
MaxValue == 12
MaxPer == 10
\* a number of requests above the milliseconds of a second
LargeLimit == 2000

\* DlpRequestLimit::new: both assertions hold for the values given here
DlpRequestLimit_new(value, per) == [value |-> value, per |-> per]

\* the integer division of to_rate_limit_capacity panics when its divisor,
\* the refill interval, is zero
divides_by_zero(limit) == to_rate_limit_in_ms(limit) = 0

\* to_throttling_counter: the panic of the division, or the throttler
to_throttling_counter_checked(limit) ==
    IF divides_by_zero(limit) THEN [panicked |-> TRUE, throttler |-> None]
    ELSE [panicked |-> FALSE, throttler |-> Some(to_throttling_counter(limit, 0))]

InitAnyLimit ==
    /\ cfg = Invocation(<<>>, FALSE, FALSE, NoMatcher, None, None, NoConverters)
    /\ Fresh
    /\ zip = NoZip
    /\ pc = "DlpRequestLimit"
    /\ ret = None
    /\ \/ \E value \in 1..MaxValue, per \in 1..MaxPer :
            call = DlpRequestLimit_new(value, per)
       \/ \E unit \in Units : call = from_str(LargeLimit, unit)

AnyLimitCall ==
    /\ pc = "DlpRequestLimit"
    /\ ret = None
    /\ ret' = Some(to_throttling_counter_checked(call))
    /\ UNCHANGED <<zip, call, cfg, pc, listing, idx, files_copied, files_skipped, result, listed,
                   opened, uploads, closed, last, throttler, now, admissions>>

SpecAnyLimit == InitAnyLimit /\ [][AnyLimitCall]_vars

\* ----------------------------------------------------------------------
\* StreamRedacter::create_redact_plan on its own: every sequence of up to
\* MaxRedacters redacters, none included, every media type and every set
\* of converters
\* ----------------------------------------------------------------------
InitPlan ==
    /\ cfg = Invocation(<<>>, FALSE, FALSE, NoMatcher, None, None, NoConverters)
    /\ Fresh
    /\ zip = NoZip
    /\ pc = "create_redact_plan"
    /\ ret = None
    /\ \E redacters \in SeqsUpTo(RedacterTypes, MaxRedacters),
          media_type \in Option(MimeKinds), converters \in Converters :
         call = [redacters |-> redacters, media_type |-> media_type,
                 file_converters |-> converters]

PlanCall ==
    /\ pc = "create_redact_plan"
    /\ ret = None
    /\ ret' = Some(create_redact_plan(call.redacters, call.media_type, call.file_converters))
    /\ UNCHANGED <<zip, call, cfg, pc, listing, idx, files_copied, files_skipped, result, listed,
                   opened, uploads, closed, last, throttler, now, admissions>>

SpecPlan == InitPlan /\ [][PlanCall]_vars

\* ----------------------------------------------------------------------
\* StreamRedacter::redact_stream on its own, called as redact_upload_file
\* calls it: with the plan and the supported redacters of create_redact_plan
\* when there is a supported redacter
\* ----------------------------------------------------------------------
InitStream ==
    /\ cfg = Invocation(<<>>, FALSE, FALSE, NoMatcher, None, None, NoConverters)
    /\ Fresh
    /\ zip = NoZip
    /\ pc = "redact_stream"
    /\ ret = None
    /\ \E redacters \in SeqsUpTo(RedacterTypes, MaxRedacters),
          media_type \in Option(MimeKinds), converters \in Converters :
         \E planned \in {create_redact_plan(redacters, media_type, converters)} :
           /\ planned.supported # <<>>
           /\ \E env \in EnvsFor(media_type, Len(planned.supported)) :
                call = [redact_plan |-> planned.plan, redacters |-> planned.supported,
                        media_type |-> media_type, file_converters |-> converters,
                        env |-> env]

StreamCall ==
    /\ pc = "redact_stream"
    /\ ret = None
    /\ ret' = Some(redact_stream(call.redact_plan, call.redacters, call.media_type,
                                 call.file_converters, call.env))
    /\ UNCHANGED <<zip, call, cfg, pc, listing, idx, files_copied, files_skipped, result, listed,
                   opened, uploads, closed, last, throttler, now, admissions>>

SpecStream == InitStream /\ [][StreamCall]_vars

\* ----------------------------------------------------------------------
\* The painting of redact_with_ocr_converter (stream_redacter.rs 497-539):
\* the words the OCR engine found, the text the redacter returned for them
\* and the words painted over.  A text is the sequence of its words and
\* of the spaces between them.
\* ----------------------------------------------------------------------
\* the largest number of words the OCR engine finds
MaxWords == 3

OcrWords == {"a", "b"}

\* what a redacter does with one word of the text
WordEdits == {"keep", "replace", "remove"}

\* .join(" ")
RECURSIVE join_space(_, _)
join_space(words, i) ==
    IF i > Len(words) THEN <<>>
    ELSE IF i = Len(words) THEN <<words[i]>>
    ELSE <<words[i], " ">> \o join_space(words, i + 1)

\* content.split(" "): the words between the spaces, the empty word where
\* nothing stands between two spaces or at an end of the text
RECURSIVE split_space(_, _, _)
split_space(text, i, word) ==
    IF i > Len(text) THEN <<word>>
    ELSE IF text[i] = " " THEN <<word>> \o split_space(text, i + 1, "")
    ELSE split_space(text, i + 1, text[i])

\* the text the redacter returns for the words it was given
RECURSIVE edited(_, _, _)
edited(words, edits, i) ==
    IF i > Len(words) THEN <<>>
    ELSE (CASE edits[i] = "keep" -> <<words[i]>>
            [] edits[i] = "replace" -> <<"[REDACTED]">>
            [] OTHER -> <<>>) \o edited(words, edits, i + 1)

\* the positions of text_coords that are painted over
painted_words(text_coords, content) ==
    LET split == split_space(content, 1, "")
        words_set == { split[k] : k \in 1..Len(split) }
    IN { i \in 1..Len(text_coords) :
           \E text \in text_coords[i].text : text \notin words_set }

InitOcr ==
    /\ cfg = Invocation(<<>>, FALSE, FALSE, NoMatcher, None, None, NoConverters)
    /\ Fresh
    /\ zip = NoZip
    /\ pc = "redact_with_ocr_converter"
    /\ ret = None
    /\ \E words \in SeqsUpTo(OcrWords, MaxWords) :
         \E edits \in [1..Len(words) -> WordEdits] :
           call = [text_coords |-> [i \in 1..Len(words) |-> [text |-> Some(words[i])]],
                   edits |-> edits,
                   content |-> join_space(edited(words, edits, 1), 1)]

OcrCall ==
    /\ pc = "redact_with_ocr_converter"
    /\ ret = None
    /\ ret' = Some(painted_words(call.text_coords, call.content))
    /\ UNCHANGED <<zip, call, cfg, pc, listing, idx, files_copied, files_skipped, result, listed,
                   opened, uploads, closed, last, throttler, now, admissions>>

SpecOcr == InitOcr /\ [][OcrCall]_vars

\* ----------------------------------------------------------------------
\* Ocrs::image_to_text (file_converters/ocr_ocrs.rs): the words of the text
\* lines the engine recognized.  A line is the sequence of its characters;
\* the character at column i of line l has the rectangle CharRect(l, i).
\* ----------------------------------------------------------------------
\* the longest recognized line and the largest number of lines
MaxLine == 3
MaxLines == 2

LineChars == {"a", " "}

Rect(left, top, right, bottom) ==
    [left |-> left, top |-> top, right |-> right, bottom |-> bottom]

CharRect(l, i) == Rect(i - 1, l - 1, i, l)

\* rten_imageproc::Rect::union
union(a, b) ==
    Rect(Min(a.left, b.left), Min(a.top, b.top),
         IF a.right >= b.right THEN a.right ELSE b.right,
         IF a.bottom >= b.bottom THEN a.bottom ELSE b.bottom)

\* the TextImageCoords pushed for a word
WordCoords(current_word, current_rect) ==
    [text |-> Some(current_word), x1 |-> current_rect.left, y1 |-> current_rect.top,
     x2 |-> current_rect.right, y2 |-> current_rect.bottom]

\* the loop over the characters of line l from column i on, and what it
\* pushes
RECURSIVE line_words(_, _, _, _, _)
line_words(text_line, l, i, current_word, current_word_rect) ==
    IF i > Len(text_line) THEN <<>>
    ELSE IF current_word_rect = None
         THEN line_words(text_line, l, i + 1, <<text_line[i]>>, Some(CharRect(l, i)))
    ELSE LET current_rect == CHOOSE r \in current_word_rect : TRUE IN
         IF text_line[i] = " "
         THEN <<WordCoords(current_word, current_rect)>>
              \o line_words(text_line, l, i + 1, current_word, None)
         ELSE line_words(text_line, l, i + 1, Append(current_word, text_line[i]),
                         Some(union(current_rect, CharRect(l, i))))

\* the loop over the recognized lines from line l on
RECURSIVE image_to_text(_, _)
image_to_text(lines, l) ==
    IF l > Len(lines) THEN <<>>
    ELSE line_words(lines[l], l, 1, <<>>, None) \o image_to_text(lines, l + 1)

InitWords ==
    /\ cfg = Invocation(<<>>, FALSE, FALSE, NoMatcher, None, None, NoConverters)
    /\ Fresh
    /\ zip = NoZip
    /\ pc = "image_to_text"
    /\ ret = None
    /\ \E lines \in SeqsUpTo(SeqsUpTo(LineChars, MaxLine), MaxLines) : call = lines

WordsCall ==
    /\ pc = "image_to_text"
    /\ ret = None
    /\ ret' = Some(image_to_text(call, 1))
    /\ UNCHANGED <<zip, call, cfg, pc, listing, idx, files_copied, files_skipped, result, listed,
                   opened, uploads, closed, last, throttler, now, admissions>>

SpecWords == InitWords /\ [][WordsCall]_vars

\* ----------------------------------------------------------------------
\* The PDF rebuilt from its redacted page images
\* (redact_pdf_with_images_converter, stream_redacter.rs 426-474, and
\* PdfImageConverter, file_converters/pdf_image_converter.rs).  A PDF is the
\* sequence of its pages; a page image is named by the page it renders.
\* ----------------------------------------------------------------------
\* the largest number of pages of a PDF
MaxPdfPages == 3

\* the widths and heights of a page
PdfPoints == {1, 2}

\* convert_to_images: one PdfPageInfo per page of the document, in order
convert_to_images(pdf) ==
    [i \in 1..Len(pdf) |->
        [height |-> pdf[i].height, width |-> pdf[i].width,
         page_as_images |-> [page |-> i, redacted |-> FALSE]]]

\* the loop over pdf_info.pages when every redaction returns an image:
\* redacted_pages holds the redacted image with the rest of its page
redacted_pages(pages) ==
    [i \in 1..Len(pages) |-> [pages[i] EXCEPT !.page_as_images.redacted = TRUE]]

\* pdfium's create_page_at_start: the new page becomes the first page
create_page_at_start(document, page) == <<page>> \o document

\* images_to_pdf: the loop over pdf_info.pages from page i on
RECURSIVE images_to_pdf(_, _, _)
images_to_pdf(pages, i, document) ==
    IF i > Len(pages) THEN document
    ELSE images_to_pdf(pages, i + 1,
                       create_page_at_start(document,
                                            [width |-> pages[i].width,
                                             height |-> pages[i].height,
                                             objects |-> <<pages[i].page_as_images>>]))

\* the pages of the PDF redact_pdf_with_images_converter returns
rebuilt_pdf(pdf) == images_to_pdf(redacted_pages(convert_to_images(pdf)), 1, <<>>)

InitPdf ==
    /\ cfg = Invocation(<<>>, FALSE, FALSE, NoMatcher, None, None, NoConverters)
    /\ Fresh
    /\ zip = NoZip
    /\ pc = "redact_pdf_with_images_converter"
    /\ ret = None
    /\ \E pdf \in SeqsUpTo([width : PdfPoints, height : PdfPoints], MaxPdfPages) : call = pdf

PdfCall ==
    /\ pc = "redact_pdf_with_images_converter"
    /\ ret = None
    /\ ret' = Some(rebuilt_pdf(call))
    /\ UNCHANGED <<zip, call, cfg, pc, listing, idx, files_copied, files_skipped, result, listed,
                   opened, uploads, closed, last, throttler, now, admissions>>

SpecPdf == InitPdf /\ [][PdfCall]_vars

\* ----------------------------------------------------------------------
\* Properties
\* ----------------------------------------------------------------------
\* the redacter options of the invocation, when present
Allow == \E o \in cfg.redacter : o.base_options.allow_unsupported_copies

\* an upload call was made for the last file
Attempted == \E u \in uploads : u.path = last.file

\* a step of the copy that ran transfer_and_redact_file past its download
Transferred == opened' # opened

\* C1: with redacter options present and allow_unsupported_copies = false,
\* every file whose upload to the destination returned Ok had at least one
\* Redacter::redact call on its content (or on a page image or OCR text
\* derived from it) return Ok.
C1_UploadOnlyIfRedacted ==
    (cfg.redacter # None /\ ~Allow) => \A u \in uploads : u.ok => u.okCalls >= 1

\* C2: with a non-empty supported set and redact_stream returning Ok, the
\* upload is made iff number_of_redactions > 0 or allow_unsupported_copies,
\* the file is Copied when that upload returns Ok, and without the upload it
\* is Skipped; with an empty supported set the file is uploaded unredacted
\* iff allow_unsupported_copies, and is Skipped otherwise.
C2_CommitPolicy ==
    last.redacting =>
      /\ (last.supported # <<>> /\ last.streamed = "Ok") =>
            /\ Attempted <=> (last.number_of_redactions > 0 \/ Allow)
            /\ Attempted => (last.outcome = "Copied" <=> last.upload = "Ok")
            /\ ~Attempted => (last.outcome = "Skipped" /\ last.upload = "None")
      /\ last.supported = <<>> =>
            /\ Attempted <=> Allow
            /\ Attempted => /\ last.outcome = "Copied" <=> last.upload = "Ok"
                            /\ \A u \in uploads : u.applied = <<>> /\ u.okCalls = 0
            /\ ~Attempted => (last.outcome = "Skipped" /\ last.upload = "None")

\* a file redacted by one redacter is copied without allow_unsupported_copies
C2_Witness ==
    /\ last.streamed = "Ok" /\ last.number_of_redactions > 0 /\ last.okCalls > 0
    /\ cfg.redacter # None /\ ~Allow
    /\ Attempted /\ last.outcome = "Copied"

\* C3: in a multi-file copy a file whose redaction fails (redact_stream
\* returns Err) is not uploaded and is counted once in files_skipped, the
\* loop goes on to the next file, and an invocation that returns Ok has gone
\* through every file of the listing.
C3_RedactionFailureSkips ==
    /\ [](result = "Ok" /\ cfg.has_multiple_files => idx = Len(listing.files) + 1)
    /\ [][(pc = "loop" /\ Transferred /\ last'.streamed = "Err") =>
            /\ uploads' = uploads
            /\ files_skipped' = files_skipped + 1
            /\ files_copied' = files_copied
            /\ idx' = idx + 1
            /\ pc' = "loop"
            /\ result' = "Running"]_vars

\* the redaction of the first of two listed files failed, and the loop is at
\* the second
C3_Witness ==
    /\ pc = "loop" /\ idx = 2 /\ Len(listing.files) = 2
    /\ last.streamed = "Err" /\ last.outcome = "Skipped"
    /\ files_skipped = listing.skipped + 1 /\ uploads = {}

\* C4: in a multi-file copy a failed upload of one file does not abort the
\* invocation: command_copy goes on and does not return the upload's error.
C4_UploadFailureNotFatal ==
    (cfg.has_multiple_files /\ last.upload = "Err") => result \in {"Running", "Ok"}

\* C5: with a multi-file source and a destination that does not accept
\* multiple files, command_copy returns
\* DestinationDoesNotSupportMultipleFiles and has made no list_files,
\* download or upload call.
C5_FailFast ==
    (cfg.has_multiple_files /\ ~cfg.accepts_multiple_files /\ pc # "check") =>
        /\ pc = "done" /\ result = "DestinationDoesNotSupportMultipleFiles"
        /\ ~listed /\ opened = {} /\ uploads = {}

C5_Witness == result = "DestinationDoesNotSupportMultipleFiles"

\* the paths of the files of a directory
RECURSIVE FilePaths(_, _)
FilePaths(dir, prefix) ==
    UNION { IF dir[i].isDir THEN FilePaths(dir[i].entries, Append(prefix, i))
            ELSE { Append(prefix, i) } : i \in 1..Len(dir) }

\* the source files larger than max_size_limit
Oversize ==
    { p \in FilePaths(cfg.source, <<>>) :
        \E limit \in cfg.options.file_matcher.max_size_limit :
            EntryAt(cfg.source, p).size > limit }

\* C6: a source file larger than max_size_limit is never opened by a
\* download call and never uploaded, in single-file and multi-file copies,
\* and a copy that returns Ok has counted each such file in files_skipped.
C6_OversizeNeverOpened ==
    /\ \A p \in Oversize :
          /\ p \notin opened
          /\ ~\E u \in uploads :
                u.path = IF cfg.has_multiple_files THEN p ELSE <<Last(p)>>
    /\ result = "Ok" => files_skipped >= Cardinality(Oversize)

\* C7: every step of the loop that handles a file counts it once, as copied
\* or as skipped; a multi-file copy that returns Ok has files_copied +
\* files_skipped = |listing.files| + listing.skipped; and with
\* max_files_limit = M, no filter and at least M source files, exactly M
\* files were handled and files_copied + files_skipped = M.
C7_CountsAddUp ==
    /\ [](result = "Ok" /\ cfg.has_multiple_files =>
            /\ files_copied + files_skipped = Len(listing.files) + listing.skipped
            /\ \A M \in cfg.options.max_files_limit :
                  (cfg.options.file_matcher = NoMatcher /\ CountFiles(cfg.source) >= M) =>
                      /\ Cardinality(opened) = M
                      /\ files_copied + files_skipped = M)
    /\ [][(pc = "loop" /\ pc' = "loop" /\ Transferred) =>
            files_copied' + files_skipped' = files_copied + files_skipped + 1]_vars

\* a copy limited to one of two files, one of them rejected by the matcher
\* before the limit was reached
C7_Witness ==
    /\ result = "Ok" /\ cfg.has_multiple_files
    /\ cfg.options.max_files_limit = Some(1) /\ CountFiles(cfg.source) = 2
    /\ Len(listing.files) = 1 /\ listing.skipped = 1
    /\ files_copied = 1 /\ files_skipped = 1

\* the files of the listing among the first k entries read
Collected(k) ==
    { i \in 1..Len(listing.files) :
        \E q \in 1..k : listing.visited[q] = listing.files[i].relative_path }

\* C8: with max_files_limit = M, list_files returns at most M files and
\* reads no directory entry once M matching files are collected: before
\* every entry read, fewer than M of the returned files had been read.
C8_ListingStopsAtLimit ==
    pc = "loop" =>
      \A M \in cfg.options.max_files_limit :
         /\ Len(listing.files) <= M
         /\ \A k \in 1..Len(listing.visited) : Cardinality(Collected(k - 1)) < M

\* the limit of two is reached inside a sub-directory entered after one
\* file, with a file left unread
C8_Witness ==
    /\ pc = "loop" /\ cfg.options.max_files_limit = Some(2)
    /\ Len(listing.files) = 2
    /\ Len(listing.files[1].relative_path) = 1
    /\ Len(listing.files[2].relative_path) = 2
    /\ CountFiles(cfg.source) > Len(listing.files) + listing.skipped

\* C9: with a limit of N requests per period P, at most N backend requests
\* are sent in any window of length P.
C9_SlidingWindow ==
    \A o \in cfg.redacter : \A limit \in o.base_options.limit_dlp_requests :
        \A i \in 1..Len(admissions) :
            Cardinality({ j \in 1..Len(admissions) :
                             /\ admissions[j] >= admissions[i]
                             /\ admissions[j] < admissions[i] + limit.per }) <= limit.value

\* C10: matches returns SkippedDueToSize iff a size limit is set, the ref
\* has a size and the size is strictly larger, whatever the name; otherwise
\* SkippedDueToName iff a glob is set and does not match; otherwise Matched;
\* a ref without a size is never skipped due to size.
C10_MatchesOrder ==
    \A r \in ret :
       LET too_large == \E limit \in call.file_matcher.max_size_limit :
                           \E size \in call.file_ref.file_size : size > limit
           wrong_name == \E glob \in call.file_matcher.filename_matcher :
                            ~is_match(glob, call.file_ref)
       IN /\ r \in {"SkippedDueToSize", "SkippedDueToName", "Matched"}
          /\ r = "SkippedDueToSize" <=> too_large
          /\ r = "SkippedDueToName" <=> (~too_large /\ wrong_name)
          /\ r = "Matched" <=> (~too_large /\ ~wrong_name)
          /\ call.file_ref.file_size = None => r # "SkippedDueToSize"

\* a ref of the limit's size and a wrong name is skipped due to its name
C10_Witness ==
    /\ ret = Some("SkippedDueToName")
    /\ call.file_matcher.max_size_limit = call.file_ref.file_size
    /\ call.file_ref.file_size # None

\* the call made by a step on the ZipFileSystem connection
ZipStep == Len(zip'.log) = Len(zip.log) + 1

LastZipCall == zip'.log[Len(zip'.log)]

\* the connection and the file at its archive path are as before the call
ZipUntouched == zip'.mode = zip.mode /\ zip'.temp = zip.temp /\ zip'.path = zip.path

\* C11: a ZipFileSystem connection has one mode at a time; once a download
\* or list_files has returned Ok every later upload returns an error, once
\* an upload has returned Ok every later download and list_files returns an
\* error, and the rejected call leaves the mode and the archive as they were.
C11_ZipModesExclusive ==
    /\ [](\A i, j \in 1..Len(zip.log) :
             (i < j /\ zip.log[i].ok) =>
                 /\ (zip.log[i].op \in {"download", "list_files"} /\ zip.log[j].op = "upload")
                        => ~zip.log[j].ok
                 /\ (zip.log[i].op = "upload" /\ zip.log[j].op \in {"download", "list_files"})
                        => ~zip.log[j].ok)
    /\ [][(/\ ZipStep
           /\ \/ zip.mode = "Read" /\ LastZipCall.op = "upload"
              \/ zip.mode = "Write" /\ LastZipCall.op \in {"download", "list_files"})
          => ~LastZipCall.ok /\ ZipUntouched]_vars

\* an upload was rejected after a download that returned Ok, and a
\* list_files after an upload that returned Ok
C11_Witness ==
    \/ /\ Len(zip.log) = 2
       /\ zip.log[1].op = "download" /\ zip.log[1].ok
       /\ zip.log[2].op = "upload" /\ ~zip.log[2].ok
       /\ zip.mode = "Read"
    \/ /\ Len(zip.log) = 2
       /\ zip.log[1].op = "upload" /\ zip.log[1].ok
       /\ zip.log[2].op = "list_files" /\ ~zip.log[2].ok
       /\ zip.mode = "Write"

\* what C12 says of the creation of the archive file, of a first upload that
\* finds a file at the archive path, and of close
ZipCreateAndClose ==
    /\ (~zip.path.exists /\ zip'.path.exists)
           => (LastZipCall.op = "upload" /\ zip.mode = "None" /\ zip'.path.entries \in {<<>>} \cup { <<n>> : n \in Names })
    /\ (LastZipCall.op = "upload" /\ zip.mode = "None" /\ zip.path.exists)
           => (~LastZipCall.ok /\ zip'.path = zip.path /\ zip'.mode = "None")
    /\ (LastZipCall.op = "close" /\ LastZipCall.ok)
           => zip'.path = IF zip.mode = "Write" THEN [zip.path EXCEPT !.archive = TRUE] ELSE zip.path
    /\ (zip'.path.archive /\ ~zip.path.archive)
           => (LastZipCall.op = "close" /\ zip.mode = "Write")

Masked(c) ==
    IF c.redacter = "MsPresidio" THEN filter_allowed(c.entities, 1) ELSE c.entities

\* the byte positions (from 0) a span covers in a text of len bytes
Covers(entity, len) ==
    { i \in 0..(len - 1) :
        /\ \A b \in entity.start : b <= i
        /\ \A e \in entity.end : i < e
        /\ entity.start # None \/ entity.end # None }

\* a span within a text of len bytes
Within(entity, len) ==
    \A b \in entity.start \cup entity.end : \A e \in entity.end : b <= e /\ e <= len

\* the spans of a call taken in the other order
Reversed(entities) == [i \in 1..Len(entities) |-> entities[Len(entities) + 1 - i]]

\* C13: for spans within the text, masking them in either order gives the
\* same string, and masking a span again in the result changes nothing.
C13_MaskOrderIndependent ==
    \A r \in ret :
        (\A i \in 1..Len(call.entities) : Within(call.entities[i], Len(call.text)))
            => /\ r = redact_text_file(call.redacter, call.text, Reversed(call.entities))
               /\ \A i \in 1..Len(Masked(call)) : mask_entity(r, Masked(call)[i]) = r

\* C14: for spans with 0 <= begin <= end <= |t|, the result has the length
\* of t, holds "X" at the positions some masked span covers and the byte of
\* t everywhere else.
C14_MaskIsPointwise ==
    \A r \in ret :
        (\A i \in 1..Len(call.entities) : Within(call.entities[i], Len(call.text)))
            => /\ r # Panic
               /\ Len(r) = Len(call.text)
               /\ \A i \in 1..Len(call.text) :
                      r[i] = IF \E k \in 1..Len(Masked(call)) :
                                    (i - 1) \in Covers(Masked(call)[k], Len(call.text))
                             THEN "X" ELSE call.text[i]

\* the pixels of the image of a call
Pixels(c) == (0..(c.width - 1)) \X (0..(c.height - 1))

\* the pixel lies inside the rectangle [x1, x2) x [y1, y2)
Inside(pixel, c) ==
    /\ c.x1 <= f32(pixel[1]) /\ f32(pixel[1]) < c.x2
    /\ c.y1 <= f32(pixel[2]) /\ f32(pixel[2]) < c.y2

\* C15: every pixel written lies in [0, w) x [0, h), and every pixel of the
\* image inside a rectangle of the list is written (black).
C15_PaintedWithinImage ==
    \A painted \in ret :
        /\ painted \subseteq Pixels(call)
        /\ \A pixel \in Pixels(call) :
               (\E i \in 1..Len(call.pii_coords) : Inside(pixel, call.pii_coords[i]))
                   => pixel \in painted

\* C16: the text returned by redact_text_file of a generative-LLM redacter
\* does not contain the separator of the request.
C16_SeparatorStripped ==
    \A r \in ret : r.ok => ~contains(r.content, call.separator)

\* the redacter's redact call fails on the item without a backend request
Refuses(redacter, item, env) ==
    ~redact(redacter, item, 0, env).ok /\ ~redact(redacter, item, 0, env).sent

\* the redacters of the supported set that can process the item
Processing(supported, item, env) ==
    { k \in 1..Len(supported) : ~Refuses(supported[k], item, env) }

\* C17: when a redacter of the supported set cannot process the item it is
\* given, and no request, read or decoding fails, redact_stream returns Ok
\* with the other redacters applied, and the file is copied if one of them
\* redacted it.
C17_UnsupportedSkipsRedacterOnly ==
    \A env \in last.env :
        (/\ last.plan = NoPlan
         /\ env.failAt = 0 /\ env.convOk
         /\ stream_to_redact_item(last.media_type, last.plan, env).ok
         /\ \E k \in 1..Len(last.supported) :
                Refuses(last.supported[k],
                        stream_to_redact_item(last.media_type, last.plan, env).item, env))
            => /\ last.streamed = "Ok"
               /\ last.okCalls =
                      Cardinality(Processing(last.supported,
                                             stream_to_redact_item(last.media_type, last.plan, env).item,
                                             env))
               /\ last.okCalls > 0 => last.outcome \in {"Copied", "Err"}

\* C18: every invocation that opened both connections and whose closes do
\* not themselves fail ends with the destination connection closed and then
\* the source connection closed.
C18_ClosesDestinationThenSource ==
    (pc = "done" /\ result # "CloseError") => closed = <<"destination", "source">>

\* the throttler gates passed for one file: the update and delay of
\* redact_upload_file run once when the file has supported redacters
Gates(info) == IF info.gated THEN 1 ELSE 0

\* C19: with a throttler configured, every backend call made for a file has
\* a throttler gate of its own, so a file has at least as many gates as calls.
C19_GateBeforeEveryCall ==
    throttler # None => last.calls <= Gates(last)

\* C20: the throttler of a limit of N requests per period has a refill
\* interval of per_ms / N and a capacity of exactly N.
C20_CapacityIsMaxOperations ==
    pc = "to_throttling_counter" =>
        \A r \in ret :
            LET limit == from_str(call.number, call.unit)
            IN /\ r.rate_limit_in_ms = limit.per \div limit.value
               /\ r.capacity = limit.value

\* the positions of the redacters that report Supported for a media type
Supporting(redacters, media_type) ==
    { k \in 1..Len(redacters) : redact_support(redacters[k], media_type) = "Supported" }

\* the redacters at the positions K, in configured order
RECURSIVE Pick(_, _, _)
Pick(redacters, K, i) ==
    IF i > Len(redacters) THEN <<>>
    ELSE (IF i \in K THEN <<redacters[i]>> ELSE <<>>) \o Pick(redacters, K, i + 1)

\* C21: when at least one redacter reports Supported for the file's own
\* media type, the supported list is exactly those redacters in configured
\* order and the three flags of the plan are false.
C21_NaturalSetFirst ==
    pc = "create_redact_plan" =>
        \A r \in ret :
            LET natural == Supporting(call.redacters, call.media_type)
            IN natural # {} =>
                 /\ r.supported = Pick(call.redacters, natural, 1)
                 /\ ~r.plan.apply_pdf_image_converter
                 /\ ~r.plan.apply_ocr
                 /\ ~r.plan.leave_data_table_as_text

\* a plan for a table that one redacter supports natively while another
\* would only support it as text
C21_Witness ==
    /\ pc = "create_redact_plan"
    /\ ret # None
    /\ call.media_type = Some("text/csv")
    /\ Supporting(call.redacters, call.media_type) # {}
    /\ \E k \in 1..Len(call.redacters) :
          /\ k \notin Supporting(call.redacters, call.media_type)
          /\ k \in Supporting(call.redacters, Some("text/plain"))

\* a plan with the given values of apply_pdf_image_converter, apply_ocr
\* and leave_data_table_as_text
Flags(plan, pdf, ocr, table) ==
    /\ plan.apply_pdf_image_converter = pdf
    /\ plan.apply_ocr = ocr
    /\ plan.leave_data_table_as_text = table

\* C22: when no redacter supports the file natively, a table gets the
\* redacters supporting text/plain with leave_data_table_as_text; a PDF
\* with a PDF-to-image converter gets those supporting image/png with
\* apply_pdf_image_converter and, only if there are none and OCR is
\* available, those supporting text/plain with both conversion flags; an
\* image with OCR gets those supporting text/plain with apply_ocr; in every
\* other case the supported list is empty.
C22_FallbackByMime ==
    pc = "create_redact_plan" =>
        \A r \in ret :
            LET redacters == call.redacters
                as_text == Pick(redacters, Supporting(redacters, Some("text/plain")), 1)
                as_png == Pick(redacters, Supporting(redacters, Some("image/png")), 1)
                table == \E m \in call.media_type : is_mime_table(m)
                pdf == \E m \in call.media_type : is_mime_pdf(m)
                image == \E m \in call.media_type : is_mime_image(m)
            IN Supporting(redacters, call.media_type) = {} =>
                 IF table
                 THEN /\ r.supported = as_text
                      /\ as_text # <<>> => Flags(r.plan, FALSE, FALSE, TRUE)
                 ELSE IF pdf /\ call.file_converters.pdf_image_converter
                 THEN IF as_png # <<>>
                      THEN r.supported = as_png /\ Flags(r.plan, TRUE, FALSE, FALSE)
                      ELSE IF call.file_converters.ocr /\ as_text # <<>>
                           THEN r.supported = as_text /\ Flags(r.plan, TRUE, TRUE, FALSE)
                           ELSE r.supported = <<>>
                 ELSE IF image /\ call.file_converters.ocr
                 THEN /\ r.supported = as_text
                      /\ as_text # <<>> => Flags(r.plan, FALSE, TRUE, FALSE)
                 ELSE r.supported = <<>>

\* a PDF that no redacter takes as page images and that is planned as
\* page images read by OCR
C22_Witness ==
    /\ pc = "create_redact_plan"
    /\ call.media_type = Some("application/pdf")
    /\ call.file_converters.pdf_image_converter
    /\ call.file_converters.ocr
    /\ Supporting(call.redacters, Some("image/png")) = {}
    /\ \E r \in ret : r.supported # <<>> /\ Flags(r.plan, TRUE, TRUE, FALSE)

\* C27: a plan with no supported redacter has no flag set; the table flag
\* is never set with a conversion flag; apply_ocr is set alone only for an
\* image and with apply_pdf_image_converter only for a PDF; the supported
\* list takes each configured redacter at most once, in configured order.
C27_PlanInvariant ==
    pc = "create_redact_plan" =>
        \A r \in ret :
            /\ r.supported = <<>> => Flags(r.plan, FALSE, FALSE, FALSE)
            /\ ~(/\ r.plan.leave_data_table_as_text
                 /\ r.plan.apply_pdf_image_converter \/ r.plan.apply_ocr)
            /\ (r.plan.apply_ocr /\ ~r.plan.apply_pdf_image_converter)
                  => \E m \in call.media_type : is_mime_image(m)
            /\ (r.plan.apply_ocr /\ r.plan.apply_pdf_image_converter)
                  => \E m \in call.media_type : is_mime_pdf(m)
            /\ \E K \in SUBSET (1..Len(call.redacters)) :
                  r.supported = Pick(call.redacters, K, 1)

\* a plan that reads an image by OCR for two redacters
C27_Witness ==
    /\ pc = "create_redact_plan"
    /\ \E r \in ret :
          /\ Len(r.supported) = MaxRedacters
          /\ Flags(r.plan, FALSE, TRUE, FALSE)

C24_CountsBackendSuccesses ==
    pc = "redact_stream" =>
        \A r \in ret : r.ok => r.number_of_redactions = Len(r.item.applied)

\* C25: the words painted over are exactly the word occurrences the
\* redacter replaced or removed.
C25_RedactedWordsPainted ==
    pc = "redact_with_ocr_converter" =>
        \A painted \in ret :
            painted = { i \in 1..Len(call.text_coords) : call.edits[i] # "keep" }

\* the words of a line: the longest stretches of characters without a space
WordSpans(text_line) ==
    { span \in (1..Len(text_line)) \X (1..Len(text_line)) :
        /\ span[1] <= span[2]
        /\ \A i \in span[1]..span[2] : text_line[i] # " "
        /\ span[1] = 1 \/ text_line[span[1] - 1] = " "
        /\ span[2] = Len(text_line) \/ text_line[span[2] + 1] = " " }

\* the coordinates of the word of line l between two columns: its
\* characters and the union of their rectangles
SpanCoords(lines, l, span) ==
    [text |-> Some(SubSeq(lines[l], span[1], span[2])),
     x1 |-> span[1] - 1, y1 |-> l - 1, x2 |-> span[2], y2 |-> l]

\* C26: image_to_text returns one TextImageCoords for every word of every
\* line, the last word of a line included, with the characters of the word
\* as text and the union of their rectangles.
C26_OneCoordPerWord ==
    pc = "image_to_text" =>
        \A coords \in ret :
            LET words == { <<l, span>> \in (1..Len(call)) \X ((1..MaxLine) \X (1..MaxLine)) :
                             span \in WordSpans(call[l]) }
            IN /\ Len(coords) = Cardinality(words)
               /\ { coords[k] : k \in 1..Len(coords) }
                    = { SpanCoords(call, w[1], w[2]) : w \in words }

\* C28: for every limit of a positive number of requests per positive
\* period, to_throttling_counter returns without a division by zero a
\* throttler with a refill interval of at least 1 ms and a capacity of at
\* least 1.
C28_ThrottlerAlwaysBuilt ==
    pc = "DlpRequestLimit" =>
        \A r \in ret :
            /\ ~r.panicked
            /\ \A t \in r.throttler : t.rate_limit_in_ms >= 1 /\ t.capacity >= 1

\* the pixel overlaps the rectangle c expanded by the factor a:
\* [x1 - x1 * a, x2 + x2 * a) x [y1 - y1 * a, y2 + y2 * a)
Expanded(pixel, c, a) ==
    /\ f32(pixel[1] + 1) > c.x1 - f32_mul(c.x1, a)
    /\ f32(pixel[1]) < c.x2 + f32_mul(c.x2, a)
    /\ f32(pixel[2] + 1) > c.y1 - f32_mul(c.y1, a)
    /\ f32(pixel[2]) < c.y2 + f32_mul(c.y2, a)

\* C29: every pixel written overlaps a rectangle of the list expanded by
\* the approximation factor, so a rectangle that lies outside the image
\* writes no pixel.
C29_PaintsOnlyExpanded ==
    pc = "redact_rgba_image_at_coords" =>
        \A painted \in ret :
            \A pixel \in painted :
                \E i \in 1..Len(call.pii_coords) :
                    Expanded(pixel, call.pii_coords[i], call.approximation_factor)

\* C30: the rebuilt PDF has as many pages as the input, and its page i is
\* the redacted image of input page i with the width and height of input
\* page i.
C30_PagesKeepOrder ==
    pc = "redact_pdf_with_images_converter" =>
        \A document \in ret :
            /\ Len(document) = Len(call)
            /\ \A i \in 1..Len(document) :
                  /\ document[i].objects = <<[page |-> i, redacted |-> TRUE]>>
                  /\ document[i].width = call[i].width
                  /\ document[i].height = call[i].height

====
